---- MODULE Spec2Model ----
(***************************************************************************)
(* Tape/cloud backup job engine of src/src/api2/cloud/backup.rs.           *)
(*                                                                         *)
(* Spec      one submitted job (job Focus), its worker followed statement  *)
(*           by statement through backup_worker and backup_snapshot.      *)
(* SpecRun   the same job over a larger datastore with short streams.      *)
(* SpecJobs  several backup() calls racing for the drives; the transfer    *)
(*           of each worker is the single step Transfer, whose result is   *)
(*           any result backup_worker can return.                          *)
(* SpecList  one job with every group filter and every set of finished    *)
(*           snapshots, the listings kept in the history.                  *)
(* SpecStores several calls, each naming a datastore in any state.         *)
(* SpecLive  one job with one snapshot and a longer stream, under weak     *)
(*           fairness of the worker and the reader thread.                 *)
(* SpecTypes one call of a function of pbs-api-types on any input:         *)
(*           KeepOptions::keeps_something, MediaLocation's from_str / fmt. *)
(*                                                                         *)
(* PoolWriter, the drive lock, the drive-state file, the datastore and the *)
(* worker-task framework are collaborators whose code is not part of the   *)
(* sources; they are modelled by their contract and every result they can  *)
(* hand to the caller (Ok / Err, LEOM or not, done or not) is drawn        *)
(* nondeterministically.                                                   *)
(***************************************************************************)
EXTENDS Integers, Sequences, FiniteSets, TLC

\* ---------------------------------------------------------------- bounds
NJobs == 2          \* backup() calls in SpecJobs
NDrives == 2        \* drives the calls name
MaxGroups == 3      \* backup groups discovered in the datastore
MaxSnaps == 3       \* snapshots listed per group
\* Spec: few snapshots, each transfer with streams and media rotations
MaxTotal == 2       \* snapshots selected for transfer, all groups together
MaxChunks == 2      \* chunks in one snapshot's stream
MaxMedia == 3       \* writable media the pool can still hand out
\* SpecRun: more snapshots, short streams
RunTotal == 3
RunChunks == 1
RunMedia == 2
\* SpecList: every filter and every set of finished snapshots, short transfers
ListTotal == 2
ListChunks == 1
ListMedia == 2
\* SpecLive: one snapshot, a stream long enough for three media rotations
LiveTotal == 1
LiveChunks == 3
LiveMedia == 4
\* SpecTypes: width of u64, length of the names in a MediaLocation
KeepBits == 2
MaxName == 2

Jobs == 1..NJobs
Drives == 1..NDrives
NoJob == 0          \* no holder of a lock; the empty drive-state marker ""
\* The job whose worker is followed statement by statement.
Focus == CHOOSE j \in Jobs : \A k \in Jobs : j <= k

VARIABLES
    \* ---- backup() calls and their worker closures
    setup,        \* setup[j]: the TapeBackupJobSetup of call j (immutable input)
    privs,        \* privs[j]: ACL paths on which the caller of call j passes check_privs
    jpc,          \* jpc[j]: position of call j / of its worker closure
    callErr,      \* callErr[j]: why backup() returned Err ("" = it did not)
    driveLock,    \* driveLock[d]: job holding the lock of drive d, or NoJob
    driveState,   \* driveState[d]: the drive-state marker (upid of job j; NoJob is "")
    email,        \* email[j]: lookup_user_email(notify_user) is Some
    notified,     \* notified[j]: "none" | "sent" | "failed"
    cleared,      \* cleared[j]: result of the closing set_tape_device_state(drive, "")
    jobResult,    \* jobResult[j]: job_result ("none" until backup_worker returned)
    taskResult,   \* taskResult[j]: what the closure returned ("none" while running)
    marked,       \* marked[j]: set_tape_device_state(drive, upid) succeeded
    \* ---- backup_worker / backup_snapshot of job Focus
    w,            \* locals: pc, group_list, snapshot_list, errors, need_catalog, ...
    abort,        \* the worker's abort flag (set from outside)
    progress,     \* StoreProgress
    summary,      \* TapeBackupJobSummary
    pw,           \* PoolWriter session: loaded medium, Full media, used media
    lim,          \* size of the datastore and the pool: [total, chunks, media],
                  \* and whether the listings are explored in full: [listing]
    reader,       \* chunk reader thread and its stream
    \* ---- history
    written,      \* <<medium, chunk>> in write order, current snapshot
    hist,         \* bookkeeping of calls and results (see Hist0)
    \* ---- pbs-api-types
    call          \* a call of a function of the API types: [fn, pc, arg, text, ret]

jobVars == <<setup, privs, jpc, callErr, driveLock, driveState, email, notified, cleared,
             jobResult, taskResult, marked>>
workVars == <<w, abort, progress, summary, pw, lim, reader, written, hist, call>>
vars == <<setup, privs, jpc, callErr, driveLock, driveState, email, notified,
          cleared, jobResult, taskResult, marked,
          w, abort, progress, summary, pw, lim, reader, written, hist, call>>

\* ------------------------------------------------------- pbs-api-types
MaintenanceTypes == {"ReadOnly", "Offline", "Delete"}
Operations == {"Read", "Write", "Lookup", "None"}

MaintenanceCheckMutant(ty, operation) ==
    IF ty = "Delete" THEN FALSE
    ELSE IF operation = "Lookup" THEN TRUE
    ELSE IF ty = "Offline" THEN FALSE
    ELSE IF ty = "ReadOnly" THEN operation \notin {"Write", "Read"}
    ELSE TRUE

\* MaintenanceMode::check: TRUE = Ok(()), FALSE = Err
MaintenanceCheck(ty, operation) ==
    IF ty = "Delete" THEN FALSE
    ELSE IF operation = "Lookup" THEN TRUE
    ELSE IF ty = "Offline" THEN FALSE
    ELSE IF ty = "ReadOnly" THEN operation # "Write"
    ELSE TRUE

\* DataStore::lookup_datastore(store, Some(Operation::Read)): the store must
\* exist and its maintenance mode (if any) must admit the operation.
LookupDatastore(exists, maintenance, operation) ==
    /\ exists
    /\ (maintenance = "none" \/ MaintenanceCheck(maintenance, operation))

\* Option values: None is <<>>, Some(x) is <<x>>.
None == <<>>
Some(x) == <<x>>

\* u64 with KeepBits bits in place of 64.
U64Limit == 2 ^ KeepBits
U64 == 0 .. (U64Limit - 1)
OptU64 == {None} \cup {Some(x) : x \in U64}

\* struct KeepOptions
KeepOptions ==
    [keep_last : OptU64, keep_hourly : OptU64, keep_daily : OptU64,
     keep_weekly : OptU64, keep_monthly : OptU64, keep_yearly : OptU64]

\* Option::unwrap_or
unwrap_or(o, d) == IF o = None THEN d ELSE o[1]

\* a + b on u64: a sum beyond the range panics in a build with overflow
\* checks (the debug profile) and wraps around in one without (release).
AddU64(a, b, overflow_checks) ==
    IF a.panic THEN a
    ELSE IF a.v + b >= U64Limit
    THEN (IF overflow_checks THEN [panic |-> TRUE, v |-> 0]
          ELSE [panic |-> FALSE, v |-> (a.v + b) % U64Limit])
    ELSE [panic |-> FALSE, v |-> a.v + b]

\* KeepOptions::keeps_something: the sum of the six options, each 0 when
\* unset, is > 0.  "panic" when an addition panics.
keeps_something(k, overflow_checks) ==
    LET s1 == [panic |-> FALSE, v |-> unwrap_or(k.keep_last, 0)]
        s2 == AddU64(s1, unwrap_or(k.keep_hourly, 0), overflow_checks)
        s3 == AddU64(s2, unwrap_or(k.keep_daily, 0), overflow_checks)
        s4 == AddU64(s3, unwrap_or(k.keep_weekly, 0), overflow_checks)
        s5 == AddU64(s4, unwrap_or(k.keep_monthly, 0), overflow_checks)
        s6 == AddU64(s5, unwrap_or(k.keep_yearly, 0), overflow_checks)
    IN IF s6.panic THEN "panic" ELSE IF s6.v > 0 THEN "true" ELSE "false"

\* Strings are sequences of characters.
S_offline == <<"o", "f", "f", "l", "i", "n", "e">>
S_online  == <<"o", "n", "l", "i", "n", "e", "-">>
S_vault   == <<"v", "a", "u", "l", "t", "-">>
S_cloud   == <<"c", "l", "o", "u", "d", "-">>

\* str::starts_with
starts_with(s, p) == Len(s) >= Len(p) /\ SubSeq(s, 1, Len(p)) = p

\* str::strip_prefix(p).unwrap(), called on a string that starts with p
strip_prefix(s, p) == SubSeq(s, Len(p) + 1, Len(s))

\* enum MediaLocation; Offline carries no string.
Offline == [tag |-> "Offline", name |-> <<>>]
Online(n) == [tag |-> "Online", name |-> n]
Vault(n) == [tag |-> "Vault", name |-> n]
Cloud(n) == [tag |-> "Cloud", name |-> n]

\* Result<MediaLocation, Error>
Ok(v) == [ok |-> TRUE, v |-> v]
ParseError == [ok |-> FALSE, v |-> [tag |-> "Error", name |-> <<>>]]

from_strMutant(s) ==
    IF s = S_offline THEN Ok(Offline)
    ELSE IF starts_with(s, S_online) THEN Ok(Online(strip_prefix(s, S_online)))
    ELSE IF starts_with(s, S_vault) THEN Ok(Vault(strip_prefix(s, S_vault)))
    ELSE IF starts_with(s, S_cloud) THEN Ok(Vault(strip_prefix(s, S_cloud)))
    ELSE ParseError

\* MediaLocation::from_str
from_str(s) ==
    IF s = S_offline THEN Ok(Offline)
    ELSE IF starts_with(s, S_online) THEN Ok(Online(strip_prefix(s, S_online)))
    ELSE IF starts_with(s, S_vault) THEN Ok(Vault(strip_prefix(s, S_vault)))
    ELSE IF starts_with(s, S_cloud) THEN Ok(Cloud(strip_prefix(s, S_cloud)))
    ELSE ParseError

\* Display for MediaLocation
fmt(v) ==
    CASE v.tag = "Offline" -> S_offline
      [] v.tag = "Online"  -> S_online \o v.name
      [] v.tag = "Vault"   -> S_vault \o v.name
      [] v.tag = "Cloud"   -> S_cloud \o v.name

\* The job is not touched by a call of these functions.
JobUntouched ==
    /\ UNCHANGED jobVars
    /\ UNCHANGED <<w, abort, progress, summary, pw, lim, reader, written, hist>>

\* keeps_something is applied to the options in call.arg, in either build.
KeepsSomethingCall ==
    /\ call.fn = "keeps_something" /\ call.pc = "called"
    /\ \E overflow_checks \in BOOLEAN :
         call' = [call EXCEPT !.pc = "done",
                              !.ret = keeps_something(call.arg, overflow_checks)]
    /\ JobUntouched

\* to_string() of the location in call.arg.
DisplayCall ==
    /\ call.fn = "to_string" /\ call.pc = "called"
    /\ call' = [call EXCEPT !.pc = "shown", !.text = fmt(call.arg)]
    /\ JobUntouched

\* from_str of call.text: of a displayed location, or of any text.
FromStrCall ==
    /\ \/ call.fn = "to_string" /\ call.pc = "shown"
       \/ call.fn = "from_str" /\ call.pc = "called"
    /\ call' = [call EXCEPT !.pc = "done", !.ret = from_str(call.text)]
    /\ JobUntouched

\* ------------------------------------------------------------- backup()
\* check_backup_permission: CachedUserInfo::new()?, then the three check_privs
\* calls, in order; each `?` returns the first failure.
check_backup_permissionMutant(user_info, p) ==
    IF ~user_info THEN "user_info"
    ELSE IF "datastore" \notin p THEN "priv_datastore"
    ELSE IF "drive" \notin p THEN "priv_drive"
    ELSE "ok"

check_backup_permission(user_info, p) ==
    IF ~user_info THEN "user_info"
    ELSE IF "datastore" \notin p THEN "priv_datastore"
    ELSE IF "drive" \notin p THEN "priv_drive"
    ELSE IF "pool" \notin p THEN "priv_pool"
    ELSE "ok"

\* The caller's privileges: any subset of the three paths; {"unread"} until
\* backup() looks them up.
AclPaths == {"datastore", "drive", "pool"}
Privs == SUBSET AclPaths

\* backup(), lines 134-143: auth id, privileges, datastore lookup, pool and
\* drive configuration.  Nothing shared is written.
BackupCheck(j) ==
    /\ jpc[j] = "call"
    /\ \E auth_id \in BOOLEAN :
         IF ~auth_id
         THEN /\ jpc' = [jpc EXCEPT ![j] = "rejected"]
              /\ callErr' = [callErr EXCEPT ![j] = "auth_id"]
              /\ UNCHANGED privs
         ELSE \E user_info \in BOOLEAN, p \in Privs :
           LET perm == check_backup_permission(user_info, p) IN
           /\ privs' = [privs EXCEPT ![j] = p]
           /\ IF perm # "ok"
              THEN /\ jpc' = [jpc EXCEPT ![j] = "rejected"]
                   /\ callErr' = [callErr EXCEPT ![j] = perm]
              ELSE \E config_ok \in BOOLEAN :
                IF ~LookupDatastore(setup[j].store # "missing", setup[j].store, "Read")
                THEN /\ jpc' = [jpc EXCEPT ![j] = "rejected"]
                     /\ callErr' = [callErr EXCEPT ![j] = "lookup"]
                ELSE IF ~config_ok
                THEN /\ jpc' = [jpc EXCEPT ![j] = "rejected"]
                     /\ callErr' = [callErr EXCEPT ![j] = "config"]
                ELSE /\ jpc' = [jpc EXCEPT ![j] = "lock"]
                     /\ UNCHANGED callErr
    /\ UNCHANGED <<setup, driveLock, driveState, email, notified, cleared, jobResult,
                   taskResult, marked>>
    /\ UNCHANGED workVars

\* lock_tape_device: exclusive, non-blocking; Err when the drive is locked.
lock_tape_device(d) == driveLock[d] = NoJob

BackupLockMutant(j) ==
    /\ jpc[j] = "lock"
    /\ jpc' = [jpc EXCEPT ![j] = "spawn"]
    /\ driveLock' = [driveLock EXCEPT ![setup[j].drive] = j]
    /\ UNCHANGED <<setup, privs, callErr, driveState, email, notified, cleared, jobResult,
                   taskResult, marked>>
    /\ UNCHANGED workVars

\* backup(), line 146: early check/lock before starting the worker.
BackupLock(j) ==
    /\ jpc[j] = "lock"
    /\ IF lock_tape_device(setup[j].drive)
       THEN /\ driveLock' = [driveLock EXCEPT ![setup[j].drive] = j]
            /\ jpc' = [jpc EXCEPT ![j] = "spawn"]
            /\ UNCHANGED callErr
       ELSE /\ jpc' = [jpc EXCEPT ![j] = "rejected"]
            /\ callErr' = [callErr EXCEPT ![j] = "locked"]
            /\ UNCHANGED driveLock
    /\ UNCHANGED <<setup, privs, driveState, email, notified, cleared, jobResult, taskResult,
                   marked>>
    /\ UNCHANGED workVars

\* backup(), lines 148-196: WorkerTask::new_thread.  When it fails the
\* closure, and the lock guard it owns, is dropped.
BackupSpawn(j) ==
    /\ jpc[j] = "spawn"
    /\ \E spawned \in BOOLEAN :
         IF spawned
         THEN /\ jpc' = [jpc EXCEPT ![j] = "w_start"]
              /\ UNCHANGED <<callErr, driveLock>>
         ELSE /\ jpc' = [jpc EXCEPT ![j] = "rejected"]
              /\ callErr' = [callErr EXCEPT ![j] = "spawn"]
              /\ driveLock' = [driveLock EXCEPT ![setup[j].drive] = NoJob]
    /\ UNCHANGED <<setup, privs, driveState, email, notified, cleared, jobResult, taskResult,
                   marked>>
    /\ UNCHANGED workVars

\* ------------------------------------------------------ worker closure
WorkerSetStateMutant(j) ==
    /\ jpc[j] = "w_start"
    /\ driveLock' = [driveLock EXCEPT ![setup[j].drive] = NoJob]
    /\ \E ok \in BOOLEAN :
         IF ok
         THEN /\ driveState' = [driveState EXCEPT ![setup[j].drive] = j]
              /\ marked' = [marked EXCEPT ![j] = TRUE]
              /\ jpc' = [jpc EXCEPT ![j] = "transfer"]
              /\ UNCHANGED taskResult
         ELSE /\ jpc' = [jpc EXCEPT ![j] = "done"]
              /\ taskResult' = [taskResult EXCEPT ![j] = "err"]
              /\ UNCHANGED <<driveState, marked>>
    /\ UNCHANGED <<setup, privs, callErr, email, notified, cleared, jobResult>>
    /\ UNCHANGED workVars

\* line 165: set_tape_device_state(drive, upid)?  On Err the closure returns
\* at once: the guard is dropped, nothing else runs.
WorkerSetState(j) ==
    /\ jpc[j] = "w_start"
    /\ \E ok \in BOOLEAN :
         IF ok
         THEN /\ driveState' = [driveState EXCEPT ![setup[j].drive] = j]
              /\ marked' = [marked EXCEPT ![j] = TRUE]
              /\ jpc' = [jpc EXCEPT ![j] = "transfer"]
              /\ UNCHANGED <<driveLock, taskResult>>
         ELSE /\ jpc' = [jpc EXCEPT ![j] = "done"]
              /\ taskResult' = [taskResult EXCEPT ![j] = "err"]
              /\ driveLock' = [driveLock EXCEPT ![setup[j].drive] = NoJob]
              /\ UNCHANGED <<driveState, marked>>
    /\ UNCHANGED <<setup, privs, callErr, email, notified, cleared, jobResult>>
    /\ UNCHANGED workVars

\* lines 168-176 seen from the closure: backup_worker returns Ok or Err and
\* writes neither the lock nor the drive state.
Transfer(j) ==
    /\ jpc[j] = "transfer"
    /\ \E r \in {"ok", "err"} : jobResult' = [jobResult EXCEPT ![j] = r]
    /\ jpc' = [jpc EXCEPT ![j] = "notify"]
    /\ UNCHANGED <<setup, privs, callErr, driveLock, driveState, email, notified,
                   cleared, taskResult, marked>>
    /\ UNCHANGED workVars

\* lines 152-156 and 178-188: send_tape_backup_status when the user to notify
\* has an address (`email`, read here for the first time); its error is
\* printed and dropped.
WorkerNotify(j) ==
    /\ jpc[j] = "notify"
    /\ \E has_email \in BOOLEAN, sent \in BOOLEAN :
         /\ email' = [email EXCEPT ![j] = has_email]
         /\ notified' = [notified EXCEPT ![j] =
                            IF ~has_email THEN "none"
                            ELSE IF sent THEN "sent" ELSE "failed"]
    /\ jpc' = [jpc EXCEPT ![j] = "clear"]
    /\ UNCHANGED <<setup, privs, callErr, driveLock, driveState, cleared, jobResult,
                   taskResult, marked>>
    /\ UNCHANGED workVars

WorkerClearStateMutant(j) ==
    /\ jpc[j] = "clear"
    /\ \E ok \in BOOLEAN :
         IF jobResult[j] = "err"
         THEN UNCHANGED <<driveState, cleared>>
         ELSE IF ok
         THEN /\ driveState' = [driveState EXCEPT ![setup[j].drive] = NoJob]
              /\ cleared' = [cleared EXCEPT ![j] = "ok"]
         ELSE /\ UNCHANGED driveState
              /\ cleared' = [cleared EXCEPT ![j] = "err"]
    /\ jpc' = [jpc EXCEPT ![j] = "return"]
    /\ UNCHANGED <<setup, privs, callErr, driveLock, email, notified, jobResult,
                   taskResult, marked>>
    /\ UNCHANGED workVars

\* lines 190-191: let _ = set_tape_device_state(drive, ""); errors ignored.
WorkerClearState(j) ==
    /\ jpc[j] = "clear"
    /\ \E ok \in BOOLEAN :
         IF ok
         THEN /\ driveState' = [driveState EXCEPT ![setup[j].drive] = NoJob]
              /\ cleared' = [cleared EXCEPT ![j] = "ok"]
         ELSE /\ UNCHANGED driveState
              /\ cleared' = [cleared EXCEPT ![j] = "err"]
    /\ jpc' = [jpc EXCEPT ![j] = "return"]
    /\ UNCHANGED <<setup, privs, callErr, driveLock, email, notified, jobResult,
                   taskResult, marked>>
    /\ UNCHANGED workVars

ClosureResultMutant(job_result, sent) ==
    IF sent = "failed" THEN "err" ELSE job_result

\* line 192: the closure's value is job_result, whatever the notification and
\* the closing set_tape_device_state did.
ClosureResult(job_result, sent) == job_result

\* lines 192-193: the closure returns job_result; _drive_lock is dropped.
WorkerReturn(j) ==
    /\ jpc[j] = "return"
    /\ taskResult' = [taskResult EXCEPT ![j] = ClosureResult(jobResult[j], notified[j])]
    /\ driveLock' = [driveLock EXCEPT ![setup[j].drive] = NoJob]
    /\ jpc' = [jpc EXCEPT ![j] = "done"]
    /\ UNCHANGED <<setup, privs, callErr, driveState, email, notified, cleared, jobResult,
                   marked>>
    /\ UNCHANGED workVars

\* ------------------------------------------------------ backup_worker
\* Snapshots are <<group, time>>; the summary lists them by this path.
Cur == <<w.group, w.snapshot>>

Hist0 ==
    [ contained    |-> "none", \* contains_snapshot's answer for the current snapshot
      curOps       |-> {},     \* reader / pool-writer calls made for the current snapshot
      allContained |-> TRUE,   \* no contains_snapshot call returned false so far
      ops          |-> {},     \* pool-writer operations called so far in the job
      listed       |-> 0,      \* snapshots selected for transfer so far (all groups)
      loopLoads    |-> 0,      \* load_writable_media calls in the current chunk loop
      loopFulls    |-> <<>>,   \* media marked Full in the current chunk loop
      appends      |-> <<>>,   \* append_chunk_archive results [m, k, leom], current loop
      snapTries    |-> <<>>,   \* append_snapshot_archive results, current snapshot
      snapLoads    |-> 0,      \* load_writable_media calls after the chunk loop
      catTries     |-> <<>>,   \* append_catalog_archive results [m, done]
      catLoads     |-> 0,      \* load_writable_media calls made for the catalog
      fully        |-> {},     \* snapshots with an append_snapshot_archive that was done
      outcomes     |-> {},     \* SnapshotBackupResult values backup_snapshot returned
      last         |-> "none", \* the last check_abort ("check") or pool-writer call made
      lastMedia    |-> "none", \* the last media load, archive append or "full" call made
      fresh        |-> FALSE,  \* the last load_writable_media handed out a new medium
      loopAbort    |-> FALSE,  \* abort was raised in a chunk loop, after an append of it
      afterAbort   |-> <<>>,   \* media loads and archive appends called since the abort
      inOrder      |-> TRUE,   \* each group / snapshot taken so far came after the one before
      \* kept when the listings are explored in full (lim.listing):
      discovered   |-> <<>>,   \* the groups in discovery order, until the loop starts
      finished     |-> <<>>,   \* the current group's finished snapshots, oldest first
      unfinished   |-> {},     \* the current group's unfinished snapshots
      passed       |-> {},     \* the group's snapshots passed to contains_snapshot
      asked        |-> [export |-> FALSE, eject |-> FALSE] ]  \* the setup's final action

\* The loops move on to another snapshot: the per-snapshot history starts anew.
NewSnapshot(h) ==
    [h EXCEPT !.contained = "none", !.curOps = {}, !.loopLoads = 0, !.loopFulls = <<>>,
              !.appends = <<>>,
              !.snapTries = <<>>, !.snapLoads = 0]

W0 ==
    [ pc |-> "idle", err |-> "", refresh |-> "none", latest_only |-> FALSE,
      group_list |-> <<>>,       \* groups the `for` loop has still to visit
      group_number |-> 0, group |-> 0,
      snapshot_list |-> <<>>,    \* snapshots the inner `for` loop has still to visit
      snapshot_number |-> 0, snapshot |-> 0,
      errors |-> FALSE, need_catalog |-> FALSE, sres |-> "none",
      uuid |-> 0, leom |-> FALSE ]

Progress0 == [done_groups |-> 0, done_snapshots |-> 0, group_snapshots |-> 0,
              total_groups |-> 0]
\* TapeBackupJobSummary::default()
Summary0 == [snapshot_list |-> <<>>, used_tapes |-> None, duration |-> "unset"]
PoolWriter0 == [loaded |-> 0, full |-> {}, allocated |-> 0, used |-> {}, commits |-> 0]
Reader0 == [state |-> "none", len |-> 0, err |-> FALSE, pos |-> 0]

Running == jpc[Focus] = "transfer"

JobKeep == UNCHANGED <<setup, privs, callErr, driveLock, driveState, email, notified, cleared,
                       taskResult, marked, lim, call>>

\* backup_worker keeps running: nothing of the closure changes.
Stay == JobKeep /\ UNCHANGED <<jpc, jobResult>>

FailMutant(msg) ==
    /\ w' = [w EXCEPT !.pc = "w_group", !.err = msg]
    /\ jobResult' = [jobResult EXCEPT ![Focus] = "err"]
    /\ UNCHANGED jpc
    /\ JobKeep

\* backup_worker returns Err(msg) to the closure (bail! or `?`).
Fail(msg) ==
    /\ w' = [w EXCEPT !.pc = "returned", !.err = msg]
    /\ jobResult' = [jobResult EXCEPT ![Focus] = "err"]
    /\ UNCHANGED jpc
    /\ JobKeep

\* The calls that acquire a medium or write an archive.
WriteOps == {"load", "chunk", "snap", "catalog"}

\* Statements of the chunk loop (lines 439-459).
ChunkLoopPcs == {"s_check1", "s_peek", "s_load1", "s_check2", "s_append", "s_full1"}

\* The worker task's abort flag is raised from outside at any time.
RequestAbort ==
    /\ jpc[Focus] \in {"w_start", "transfer"}
    /\ ~abort
    /\ abort' = TRUE
    /\ hist' = [hist EXCEPT !.loopAbort = w.pc \in ChunkLoopPcs /\ hist.appends # <<>>]
    /\ UNCHANGED jobVars
    /\ UNCHANGED <<w, lim, call, progress, summary, pw, reader, written>>

\* The closure enters backup_worker (line 168).
WorkerEnter ==
    /\ Running /\ w.pc = "idle"
    /\ w' = [w EXCEPT !.pc = "w_refresh"]
    /\ Stay
    /\ UNCHANGED <<abort, progress, summary, pw, reader, written, hist>>

RefreshOutcomes ==
    {"no_changer", "ok", "config_err", "labels_err", "inventory_err", "reconcile_err"}
RefreshFailures == {"labels_err", "inventory_err", "reconcile_err"}

\* update_media_online_status: Ok(None) without changer, Ok(Some(name)) after
\* a refresh, and Err from each `?` (lines 389, 392, 394, 396).
update_media_online_status(o) ==
    IF o \in {"no_changer", "ok"} THEN "Ok" ELSE "Err"

\* lines 176-178: backup_worker has returned; its locals and the PoolWriter
\* are dropped, the summary and job_result stay with the closure.
WorkerLeave ==
    /\ Running /\ w.pc = "returned"
    /\ jpc' = [jpc EXCEPT ![Focus] = "notify"]
    /\ w' = [W0 EXCEPT !.pc = "left"]
    /\ progress' = Progress0
    /\ pw' = PoolWriter0
    /\ hist' = [Hist0 EXCEPT !.fully = hist.fully, !.allContained = hist.allContained,
                              !.outcomes = hist.outcomes]
    /\ written' = <<>>
    /\ reader' = IF reader.state = "running"
                 THEN [Reader0 EXCEPT !.state = "running"] ELSE Reader0
    /\ UNCHANGED <<jobResult, abort, summary>>
    /\ JobKeep

\* lines 211-212: let changer_name = update_media_online_status(&setup.drive)?;
WRefresh ==
    /\ Running /\ w.pc = "w_refresh"
    /\ \E o \in RefreshOutcomes :
         IF update_media_online_status(o) = "Ok"
         THEN /\ w' = [w EXCEPT !.pc = "w_setup", !.refresh = "Ok"]
              /\ Stay
         ELSE /\ w' = [w EXCEPT !.pc = "returned", !.err = "refresh", !.refresh = o]
              /\ jobResult' = [jobResult EXCEPT ![Focus] = "err"]
              /\ UNCHANGED jpc
              /\ JobKeep
    /\ UNCHANGED <<abort, progress, summary, pw, reader, written, hist>>

\* The orders in which a directory walk can hand out n entries; entries are
\* named by their rank, 1..n.
Listings(n) == { s \in [1..n -> 1..n] : \A a, b \in 1..n : a # b => s[a] # s[b] }

Less(a, b) == a < b

SortGroupsMutant(list) == list

\* group_list.sort_unstable_by(|a, b| a.group().cmp(b.group()))
SortGroups(list) == SortSeq(list, Less)

\* The sets of names a filter over names 1..n can keep.  Names are arbitrary,
\* so a prefix 1..m stands for any set of m names unless the listings are
\* explored in full.
Subsets(n) == IF lim.listing THEN SUBSET (1..n) ELSE {1..m : m \in 0..n}

\* group_list.into_iter().filter(|group| group.group().apply_filters(f))
FilterGroups(list, keep) == SelectSeq(list, LAMBDA g : g \in keep)

\* lines 214-262: pool and pool writer, namespaces, group list (sorted, then
\* filtered), StoreProgress::new, setup.latest_only (read here, line 249).
WSetup ==
    /\ Running /\ w.pc = "w_setup"
    /\ \/ /\ Fail("setup")
          /\ UNCHANGED <<progress, pw, hist>>
       \/ \E n \in 0..MaxGroups, lo \in BOOLEAN :
          \E discovered \in Listings(n), keep \in Subsets(n) :
            LET gl == FilterGroups(SortGroups(discovered), keep) IN
            /\ w' = [w EXCEPT !.pc = "w_group", !.group_list = gl,
                              !.latest_only = lo,
                              !.errors = FALSE, !.need_catalog = FALSE]
            /\ progress' = [Progress0 EXCEPT !.total_groups = Len(gl)]
            /\ pw' = PoolWriter0
            /\ hist' = [Hist0 EXCEPT !.discovered = IF lim.listing THEN discovered ELSE @]
            /\ Stay
    /\ UNCHANGED <<abort, summary, reader, written>>

\* list_backups(): n snapshots in directory order, of which those with a time
\* in fin are finished.
ListBackups(order, fin) ==
    [i \in 1..Len(order) |-> [time |-> order[i], finished |-> order[i] \in fin]]

\* A group is taken from the list: the per-snapshot history starts anew; g
\* follows the group before it, sl are its finished snapshots, unfin the rest.
NewGroup(h, g, sl, unfin) ==
    [NewSnapshot(h) EXCEPT
        !.inOrder = @ /\ (w.group = 0 \/ w.group < g),
        !.discovered = <<>>, !.passed = {},
        !.finished = IF lim.listing THEN sl ELSE @,
        !.unfinished = IF lim.listing THEN unfin ELSE @]

\* The group loop has ended.
NoGroup(h) ==
    [NewSnapshot(h) EXCEPT !.discovered = <<>>, !.passed = {}, !.finished = <<>>,
                           !.unfinished = {}]

FilterFinishedMutant(list) == list

\* snapshot_list.into_iter().filter(|item| item.is_finished())
FilterFinished(list) == SelectSeq(list, LAMBDA i : i.finished)

OlderInfo(a, b) == a.time < b.time

\* BackupInfo::sort_list(&mut snapshot_list, true): oldest first
SortList(list) == SortSeq(list, OlderInfo)

Times(list) == [k \in 1..Len(list) |-> list[k].time]

SelectedMutant(sl, lo) == sl

\* The snapshots the group hands to the transfer: in latest-only mode the one
\* snapshot_list.pop() yields, else the whole list (lines 289-291, 315-316).
Selected(sl, lo) == IF lo THEN <<sl[Len(sl)]>> ELSE sl

GroupSnapshotsMutant(sl, lo) == Len(sl)

\* lines 290 / 314: progress.group_snapshots = 1, or snapshot_list.len()
GroupSnapshots(sl, lo) == IF lo THEN 1 ELSE Len(sl)

\* lines 264-291 and 315-316: the `for` loop takes the next group, lists its
\* finished snapshots oldest first and enters the snapshot loop; after the
\* last group the loop ends at commit().
WGroup ==
    /\ Running /\ w.pc = "w_group"
    /\ IF w.group_list = <<>>
       THEN /\ w' = [w EXCEPT !.pc = "w_commit"]
            /\ Stay
            /\ hist' = NoGroup(hist)
            /\ UNCHANGED progress
       ELSE LET g == Head(w.group_list)
                v == [w EXCEPT !.group = g, !.group_list = Tail(@),
                               !.group_number = @ + 1,
                               !.snapshot = 0, !.snapshot_number = 0]
                p == [progress EXCEPT !.done_groups = w.group_number,
                                      !.done_snapshots = 0,
                                      !.group_snapshots = 0]
            IN
            \/ /\ Fail("list_backups")
               /\ progress' = p
               /\ UNCHANGED hist
            \/ \E n \in 0..MaxSnaps :
               \E order \in Listings(n), fin \in Subsets(n) :
                 LET sl == Times(SortList(FilterFinished(ListBackups(order, fin))))
                     h == NewGroup(hist, g, sl, (1..n) \ fin)
                 IN
                 /\ Stay
                 /\ IF sl = <<>>
                    THEN /\ w' = [v EXCEPT !.snapshot_list = <<>>]
                         /\ progress' = p
                         /\ hist' = h
                    ELSE LET sel == Selected(sl, w.latest_only) IN
                         /\ hist.listed + Len(sel) <= lim.total
                         /\ hist' = [h EXCEPT !.listed = @ + Len(sel)]
                         /\ w' = [v EXCEPT !.pc = "w_contains",
                                           !.snapshot = Head(sel),
                                           !.snapshot_list = Tail(sel),
                                           !.snapshot_number = 1]
                         /\ progress' = [p EXCEPT !.group_snapshots =
                                           GroupSnapshots(sl, w.latest_only)]
    /\ UNCHANGED <<abort, summary, pw, reader, written>>

\* The snapshot loop takes the group's next snapshot t.
NextInGroup(h, t) == [NewSnapshot(h) EXCEPT !.inOrder = @ /\ w.snapshot < t]

\* End of one iteration of the snapshot loop: the next snapshot of the group,
\* or, when none is left, the next group.
NextSnapshot(v) ==
    IF v.snapshot_list # <<>>
    THEN [v EXCEPT !.pc = "w_contains", !.snapshot = Head(v.snapshot_list),
                   !.snapshot_list = Tail(@), !.snapshot_number = @ + 1]
    ELSE [v EXCEPT !.pc = "w_group"]

ContainsSkipMutant(v, c) ==
    [v EXCEPT !.pc = "s_open", !.need_catalog = TRUE]

\* lines 294-303 and 320-329: the branch on contains_snapshot: log and
\* `continue` when the media set has the snapshot, else need_catalog = true
\* and backup_snapshot is called.
ContainsSkip(v, c) ==
    IF c THEN [v EXCEPT !.pc = "w_skip"]
    ELSE [v EXCEPT !.pc = "s_open", !.need_catalog = TRUE]

WContains ==
    /\ Running /\ w.pc = "w_contains"
    /\ \E c \in BOOLEAN :
         /\ w' = ContainsSkip(w, c)
         /\ hist' = [hist EXCEPT !.contained = IF c THEN "yes" ELSE "no",
                                 !.allContained = @ /\ c,
                                 !.passed = IF lim.listing THEN @ \cup {w.snapshot} ELSE @]
    /\ Stay
    /\ UNCHANGED <<abort, progress, summary, pw, reader, written>>

\* lines 299-300 and 325-326: task_log "skip snapshot"; continue.  In
\* latest-only mode the `continue` is that of the group loop.
WSkip ==
    /\ Running /\ w.pc = "w_skip"
    /\ w' = NextSnapshot(w)
    /\ hist' = IF w'.pc = "w_contains" THEN NextInGroup(hist, w'.snapshot) ELSE hist
    /\ Stay
    /\ UNCHANGED <<abort, progress, summary, pw, reader, written>>

\* ---------------------------------------------------------- PoolWriter
\* load_writable_media can hand out a medium: the loaded one while it is not
\* Full, else a fresh one as long as the pool has any.
CanLoad(p) == (p.loaded # 0 /\ p.loaded \notin p.full) \/ p.allocated < lim.media

\* load_writable_media(): the session after Ok(uuid); uuid is .loaded.
load_writable_media(p) ==
    IF p.loaded # 0 /\ p.loaded \notin p.full
    THEN p
    ELSE [p EXCEPT !.loaded = p.allocated + 1, !.allocated = @ + 1,
                   !.used = @ \cup {p.allocated + 1}]

\* set_media_status_full(uuid): idempotent status change.
set_media_status_full(p, m) == [p EXCEPT !.full = @ \cup {m}]

InSnapshotCall ==
    w.pc \in {"s_open", "s_spawn", "s_check1", "s_peek", "s_load1", "s_check2",
              "s_append", "s_full1", "s_join", "s_check3", "s_load2", "s_check4",
              "s_snap1", "s_full2", "s_check5", "s_load3", "s_snap2"}

\* A pool-writer operation is called; inside backup_snapshot it is called for
\* the current snapshot.
Called(h, op) ==
    [h EXCEPT !.ops = @ \cup {op},
              !.curOps = IF InSnapshotCall THEN @ \cup {op} ELSE @,
              !.last = op,
              !.lastMedia = IF op \in WriteOps \cup {"full"} THEN op ELSE @,
              !.afterAbort = IF abort /\ op \in WriteOps THEN Append(@, op) ELSE @]

CountLoad(h, ctr) ==
    IF ctr = "loop" THEN [h EXCEPT !.loopLoads = @ + 1]
    ELSE IF ctr = "snap" THEN [h EXCEPT !.snapLoads = @ + 1]
    ELSE IF ctr = "cat" THEN [h EXCEPT !.catLoads = @ + 1]
    ELSE h

\* A `pool_writer.load_writable_media(worker)?` statement at position `from`;
\* `bind` when its result is kept in `uuid`.
LoadAt(from, to, bind, ctr) ==
    /\ Running /\ w.pc = from
    /\ \E ok \in BOOLEAN :
         /\ hist' = [CountLoad(Called(hist, "load"), ctr) EXCEPT
                       !.fresh = ok /\ CanLoad(pw) /\ load_writable_media(pw) # pw]
         /\ IF ok /\ CanLoad(pw)
            THEN /\ pw' = load_writable_media(pw)
                 /\ w' = [w EXCEPT !.pc = to,
                                   !.uuid = IF bind THEN pw'.loaded ELSE @]
                 /\ Stay
            ELSE /\ Fail("pool_writer")
                 /\ UNCHANGED pw
    /\ UNCHANGED <<abort, progress, summary, reader, written>>

\* A `pool_writer.set_media_status_full(&uuid)?` statement at position `from`.
FullAt(from, to, inLoop) ==
    /\ Running /\ w.pc = from
    /\ hist' = [Called(hist, "full") EXCEPT
                  !.loopFulls = IF inLoop THEN Append(@, w.uuid) ELSE @]
    /\ \E ok \in BOOLEAN :
         IF ok
         THEN /\ pw' = set_media_status_full(pw, w.uuid)
              /\ w' = [w EXCEPT !.pc = to]
              /\ Stay
         ELSE /\ Fail("pool_writer")
              /\ UNCHANGED pw
    /\ UNCHANGED <<abort, progress, summary, reader, written>>

CheckAbortAtMutant(from, to) ==
    /\ Running /\ w.pc = from
    /\ w' = [w EXCEPT !.pc = to]
    /\ Stay
    /\ hist' = [hist EXCEPT !.last = "check"]
    /\ UNCHANGED <<abort, progress, summary, pw, reader, written>>

\* worker.check_abort()? at position `from`.
CheckAbortAt(from, to) ==
    /\ Running /\ w.pc = from
    /\ IF abort
       THEN Fail("abort")
       ELSE /\ w' = [w EXCEPT !.pc = to]
            /\ Stay
    /\ hist' = [hist EXCEPT !.last = "check"]
    /\ UNCHANGED <<abort, progress, summary, pw, reader, written>>

\* ----------------------------------------------------- backup_snapshot
\* lines 413-430: snapshot.locked_reader(); a vanished snapshot is Ignored,
\* an unreadable one is Error.
SOpen ==
    /\ Running /\ w.pc = "s_open"
    /\ \E r \in {"ok", "vanished", "unreadable"} :
         /\ w' = IF r = "ok" THEN [w EXCEPT !.pc = "s_spawn"]
                 ELSE IF r = "vanished" THEN [w EXCEPT !.pc = "w_match", !.sres = "Ignored"]
                 ELSE [w EXCEPT !.pc = "w_match", !.sres = "Error"]
         /\ hist' = IF r = "ok" THEN hist
                    ELSE [hist EXCEPT !.outcomes = @ \cup {w'.sres}]
    /\ Stay
    /\ UNCHANGED <<abort, progress, summary, pw, reader, written>>

\* lines 432-437: spawn_chunk_reader_thread; the stream is finite, `len`
\* chunks in order, ended by a read error when `err`.
SSpawn ==
    /\ Running /\ w.pc = "s_spawn"
    /\ \/ /\ Fail("pool_writer")
          /\ hist' = Called(hist, "spawn")
          /\ UNCHANGED <<reader, written>>
       \/ \E n \in 0..lim.chunks, e \in BOOLEAN :
            /\ reader' = [state |-> "running", len |-> n, err |-> e, pos |-> 0]
            /\ written' = <<>>
            /\ hist' = Called(hist, "spawn")
            /\ w' = [w EXCEPT !.pc = "s_check1"]
            /\ Stay
    /\ UNCHANGED <<abort, progress, summary, pw>>

Total(r) == r.len + (IF r.err THEN 1 ELSE 0)

\* The reader thread ends after sending its last item, or when the receiving
\* end is gone.
ReaderFinish ==
    /\ reader.state = "running"
    /\ reader' = [reader EXCEPT !.state = "done"]
    /\ UNCHANGED jobVars
    /\ UNCHANGED <<w, abort, lim, call, progress, summary, pw, written, hist>>

\* The reader thread panics after `cut` items; its sender is dropped with it
\* and the items it had not sent are never seen.
ReaderPanic ==
    /\ reader.state = "running"
    /\ \E cut \in reader.pos..Total(reader) :
         reader' = [reader EXCEPT !.state = "panicked",
                                  !.len = IF cut < @ THEN cut ELSE @,
                                  !.err = @ /\ cut = Total(reader)]
    /\ UNCHANGED jobVars
    /\ UNCHANGED <<w, abort, lim, call, progress, summary, pw, written, hist>>

PeekMutant(r) ==
    IF r.pos < Total(r)
    THEN (IF r.pos + 1 <= r.len THEN "Ok" ELSE "Err")
    ELSE "wait"

\* chunk_iter.peek(): the next item without taking it; at the end of the
\* sequence it blocks ("wait") until the thread has ended and closed the channel.
Peek(r) ==
    IF r.pos < Total(r)
    THEN (IF r.pos + 1 <= r.len THEN "Ok" ELSE "Err")
    ELSE IF r.state # "running" THEN "None" ELSE "wait"

AfterPeekMutant(r) == [r EXCEPT !.pos = @ + 1]

\* The stream after peek(): the peeked item stays in it.
AfterPeek(r) == r

\* lines 443-447: test if we have remaining chunks.
SPeek ==
    /\ Running /\ w.pc = "s_peek"
    /\ Peek(reader) # "wait"
    /\ IF Peek(reader) = "Err"
       THEN /\ Fail("read")
            /\ UNCHANGED reader
       ELSE /\ w' = [w EXCEPT !.pc = IF Peek(reader) = "None" THEN "s_join" ELSE "s_load1"]
            /\ reader' = IF Peek(reader) = "Ok" THEN AfterPeek(reader) ELSE reader
            /\ Stay
    /\ UNCHANGED <<abort, progress, summary, pw, written, hist>>

SCheck1 == CheckAbortAt("s_check1", "s_peek")
SLoad1 == LoadAt("s_load1", "s_check2", TRUE, "loop")
SCheck2 == CheckAbortAt("s_check2", "s_append")

\* Chunks of the stream not yet taken.
AvailOk(r) == r.len - r.pos

\* Chunks pos+1 .. pos+k go to medium m, in stream order.
WriteChunks(log, m, from, k) == log \o [i \in 1..k |-> <<m, from + i>>]

AfterChunkAppendMutant(v, l) == [v EXCEPT !.leom = l, !.pc = "s_full1"]

\* lines 453-459: on LEOM the medium is marked Full; then the loop repeats.
AfterChunkAppend(v, l) ==
    [v EXCEPT !.leom = l, !.pc = IF l THEN "s_full1" ELSE "s_check1"]

\* lines 453-454: append_chunk_archive takes chunks off the stream and writes
\* them to the loaded medium until LEOM (any number k of them fit) or until
\* the stream is exhausted; a read error in the stream or an I/O error is Err.
SAppendChunk ==
    /\ Running /\ w.pc = "s_append"
    /\ \E k \in 0..AvailOk(reader), r \in {"leom", "end", "read_err", "io_err"} :
         /\ r = "end" => /\ k = AvailOk(reader)
                         /\ reader.state # "running"
                         /\ ~reader.err
         /\ r = "read_err" => /\ k = AvailOk(reader)
                              /\ reader.err
         /\ r = "io_err" => k = 0
         /\ reader' = [reader EXCEPT !.pos = @ + k]
         /\ written' = WriteChunks(written, pw.loaded, reader.pos, k)
         /\ IF r \in {"leom", "end"}
            THEN /\ w' = AfterChunkAppend(w, r = "leom")
                 /\ hist' = [Called(hist, "chunk") EXCEPT
                               !.appends = Append(@, [m |-> pw.loaded, k |-> k,
                                                      leom |-> (r = "leom"),
                                                      fresh |-> hist.fresh])]
                 /\ Stay
            ELSE /\ Fail(IF r = "read_err" THEN "read" ELSE "pool_writer")
                 /\ hist' = Called(hist, "chunk")
    /\ UNCHANGED <<abort, progress, summary, pw>>

SFull1 == FullAt("s_full1", "s_check1", TRUE)

SJoinMutant ==
    /\ Running /\ w.pc = "s_join"
    /\ reader.state # "running"
    /\ w' = [w EXCEPT !.pc = "s_check3"]
    /\ Stay
    /\ UNCHANGED <<abort, progress, summary, pw, reader, written, hist>>

\* lines 461-463: reader_thread.join(); a panicked thread is a fatal error.
SJoin ==
    /\ Running /\ w.pc = "s_join"
    /\ reader.state # "running"
    /\ IF reader.state = "panicked"
       THEN Fail("join")
       ELSE /\ w' = [w EXCEPT !.pc = "s_check3"]
            /\ Stay
    /\ UNCHANGED <<abort, progress, summary, pw, reader, written, hist>>

SCheck3 == CheckAbortAt("s_check3", "s_load2")
SLoad2 == LoadAt("s_load2", "s_check4", TRUE, "snap")
SCheck4 == CheckAbortAt("s_check4", "s_snap1")

\* lines 471-476: the first append_snapshot_archive; `!done` goes on to the
\* next volume.
SAppendSnap1 ==
    /\ Running /\ w.pc = "s_snap1"
    /\ \E r \in {"done", "not_done", "err"} :
         IF r = "err"
         THEN /\ Fail("pool_writer")
              /\ hist' = Called(hist, "snap")
         ELSE /\ hist' = [Called(hist, "snap") EXCEPT
                            !.snapTries = Append(@, [m |-> pw.loaded, done |-> (r = "done")]),
                            !.fully = IF r = "done" THEN @ \cup {Cur} ELSE @,
                            !.outcomes = IF r = "done" THEN @ \cup {"Success"} ELSE @]
              /\ w' = IF r = "done"
                      THEN [w EXCEPT !.pc = "w_match", !.sres = "Success", !.leom = FALSE]
                      ELSE [w EXCEPT !.pc = "s_full2", !.leom = TRUE]
              /\ Stay
    /\ UNCHANGED <<abort, progress, summary, pw, reader, written>>

SFull2 == FullAt("s_full2", "s_check5", FALSE)
SCheck5 == CheckAbortAt("s_check5", "s_load3")
SLoad3Mutant ==
    /\ Running /\ w.pc = "s_load3"
    /\ w' = [w EXCEPT !.pc = "s_snap2"]
    /\ Stay
    /\ UNCHANGED <<abort, progress, summary, pw, reader, written, hist>>

SLoad3 == LoadAt("s_load3", "s_snap2", FALSE, "snap")

SecondTryMutant(v, done) ==
    IF done THEN [v EXCEPT !.pc = "w_match", !.sres = "Success", !.leom = FALSE]
    ELSE [v EXCEPT !.pc = "s_full2", !.leom = TRUE]

\* lines 482-496: after the second append_snapshot_archive: Success when
\* done, else bail!("write_snapshot_archive failed on second media").
SecondTry(v, done) ==
    IF done THEN [v EXCEPT !.pc = "w_match", !.sres = "Success", !.leom = FALSE]
    ELSE [v EXCEPT !.pc = "returned", !.err = "second_media", !.leom = TRUE]

\* lines 482-487: the retry of the whole archive on the next volume.
SAppendSnap2 ==
    /\ Running /\ w.pc = "s_snap2"
    /\ \E r \in {"done", "not_done", "err"} :
         IF r = "err"
         THEN /\ Fail("pool_writer")
              /\ hist' = Called(hist, "snap")
         ELSE /\ hist' = [Called(hist, "snap") EXCEPT
                            !.snapTries = Append(@, [m |-> pw.loaded, done |-> (r = "done")]),
                            !.fully = IF r = "done" THEN @ \cup {Cur} ELSE @,
                            !.outcomes = IF r = "done" THEN @ \cup {"Success"} ELSE @]
              /\ w' = SecondTry(w, r = "done")
              /\ jobResult' = [jobResult EXCEPT ![Focus] =
                                  IF w'.pc = "returned" THEN "err" ELSE @]
              /\ UNCHANGED jpc
              /\ JobKeep
    /\ UNCHANGED <<abort, progress, summary, pw, reader, written>>

MatchResultMutant(v, sm) ==
    [sm EXCEPT !.snapshot_list = Append(@, <<v.group, v.snapshot>>)]

\* lines 307 / 333: Success => summary.snapshot_list.push(rel_path)
MatchResult(v, sm) ==
    IF v.sres = "Success"
    THEN [sm EXCEPT !.snapshot_list = Append(@, <<v.group, v.snapshot>>)]
    ELSE sm

MatchErrorsMutant(v) == v.errors \/ v.sres # "Success"

\* lines 308 / 334: SnapshotBackupResult::Error => errors = true
MatchErrors(v) == v.errors \/ v.sres = "Error"

DoneSnapshotsMutant(v) == IF v.latest_only THEN 1 ELSE Len(v.snapshot_list)

\* lines 311 / 337: progress.done_snapshots = 1, or snapshot_number + 1 with
\* the 0-based index of enumerate() (v.snapshot_number counts from 1).
DoneSnapshots(v) == IF v.latest_only THEN 1 ELSE v.snapshot_number

\* lines 305-312 and 331-338: the match on backup_snapshot's result, then
\* progress.done_snapshots.
WMatch ==
    /\ Running /\ w.pc = "w_match"
    /\ summary' = MatchResult(w, summary)
    /\ w' = NextSnapshot([w EXCEPT !.errors = MatchErrors(w), !.sres = "none",
                                   !.uuid = 0, !.leom = FALSE])
    /\ progress' = [progress EXCEPT !.done_snapshots = DoneSnapshots(w)]
    /\ reader' = Reader0
    /\ written' = <<>>
    /\ hist' = IF w'.pc = "w_contains" THEN NextInGroup(hist, w'.snapshot) ELSE hist
    /\ Stay
    /\ UNCHANGED <<abort, pw>>

\* ------------------------------------------- backup_worker, end of job
AfterCommitMutant(v) == [v EXCEPT !.pc = "c_load1"]

\* line 345: if need_catalog { ... }
AfterCommit(v) == [v EXCEPT !.pc = IF v.need_catalog THEN "c_load1" ELSE "w_export"]

\* lines 343-345: pool_writer.commit()?, then the catalog when needed.
WCommit ==
    /\ Running /\ w.pc = "w_commit"
    /\ hist' = Called(hist, "commit")
    /\ \E ok \in BOOLEAN :
         IF ok
         THEN /\ pw' = [pw EXCEPT !.commits = @ + 1]
              /\ w' = AfterCommit(w)
              /\ Stay
         ELSE /\ Fail("pool_writer")
              /\ UNCHANGED pw
    /\ UNCHANGED <<abort, progress, summary, reader, written>>

CLoad1 == LoadAt("c_load1", "c_append1", TRUE, "cat")

\* lines 349-350: the first append_catalog_archive.
CAppend1 ==
    /\ Running /\ w.pc = "c_append1"
    /\ \E r \in {"done", "not_done", "err"} :
         IF r = "err"
         THEN /\ Fail("pool_writer")
              /\ hist' = Called(hist, "catalog")
         ELSE /\ w' = [w EXCEPT !.pc = IF r = "done" THEN "w_export" ELSE "c_full"]
              /\ hist' = [Called(hist, "catalog") EXCEPT
                            !.catTries = Append(@, [m |-> pw.loaded, done |-> (r = "done")])]
              /\ Stay
    /\ UNCHANGED <<abort, progress, summary, pw, reader, written>>

CFull == FullAt("c_full", "c_load2", FALSE)
CLoad2Mutant ==
    /\ Running /\ w.pc = "c_load2"
    /\ w' = [w EXCEPT !.pc = "c_append2"]
    /\ Stay
    /\ UNCHANGED <<abort, progress, summary, pw, reader, written, hist>>

\* line 356: pool_writer.load_writable_media(worker)?; the result is not kept.
CLoad2 == LoadAt("c_load2", "c_append2", FALSE, "cat")

SecondCatalogMutant(v, done) ==
    [v EXCEPT !.pc = IF done THEN "w_export" ELSE "c_full"]

\* lines 357-361: after the second append_catalog_archive: go on when done,
\* else bail!("write_catalog_archive failed on second media").
SecondCatalog(v, done) ==
    IF done THEN [v EXCEPT !.pc = "w_export"]
    ELSE [v EXCEPT !.pc = "returned", !.err = "catalog_second_media"]

\* lines 357-360: the catalog on the second volume.
CAppend2 ==
    /\ Running /\ w.pc = "c_append2"
    /\ \E r \in {"done", "not_done", "err"} :
         IF r = "err"
         THEN /\ Fail("pool_writer")
              /\ hist' = Called(hist, "catalog")
         ELSE /\ hist' = [Called(hist, "catalog") EXCEPT
                            !.catTries = Append(@, [m |-> pw.loaded, done |-> (r = "done")])]
              /\ w' = SecondCatalog(w, r = "done")
              /\ jobResult' = [jobResult EXCEPT ![Focus] =
                                  IF w'.pc = "returned" THEN "err" ELSE @]
              /\ UNCHANGED jpc
              /\ JobKeep
    /\ UNCHANGED <<abort, progress, summary, pw, reader, written>>

FinalActionMutant(export_media_set, eject_media) ==
    IF eject_media THEN "eject" ELSE IF export_media_set THEN "export" ELSE "none"

\* lines 364-368: export_media_set if asked for, else eject_media if asked for.
FinalAction(export_media_set, eject_media) ==
    IF export_media_set THEN "export" ELSE IF eject_media THEN "eject" ELSE "none"

\* lines 364-368; setup.export_media_set and setup.eject_media are read here.
WExport ==
    /\ Running /\ w.pc = "w_export"
    /\ \E export_media_set \in BOOLEAN, eject_media \in BOOLEAN, ok \in BOOLEAN :
         LET op == FinalAction(export_media_set, eject_media) IN
         /\ hist' = [(IF op = "none" THEN hist ELSE Called(hist, op)) EXCEPT
                       !.asked = [export |-> export_media_set, eject |-> eject_media]]
         /\ IF op = "none" \/ ok
            THEN /\ w' = [w EXCEPT !.pc = "w_finish"]
                 /\ Stay
            ELSE Fail("pool_writer")
    /\ UNCHANGED <<abort, progress, summary, pw, reader, written>>

JobFailedMutant(v) == FALSE

\* line 370: if errors { bail!(..) }
JobFailed(v) == v.errors

WFinishMutant ==
    /\ Running /\ w.pc = "w_finish"
    /\ \E labels_ok \in BOOLEAN :
         summary' = [summary EXCEPT
                       !.used_tapes = IF labels_ok THEN Some(pw.used) ELSE None,
                       !.duration = "set"]
    /\ IF JobFailed(w)
       THEN Fail("some_errors")
       ELSE /\ w' = [w EXCEPT !.pc = "returned"]
            /\ jobResult' = [jobResult EXCEPT ![Focus] = "ok"]
            /\ UNCHANGED jpc
            /\ JobKeep
    /\ UNCHANGED <<abort, progress, pw, reader, written, hist>>

\* lines 370-384: bail! when a snapshot failed; else the used tapes (None when
\* they cannot be collected) and the duration go into the summary, Ok(()).
WFinish ==
    /\ Running /\ w.pc = "w_finish"
    /\ IF JobFailed(w)
       THEN /\ Fail("some_errors")
            /\ UNCHANGED summary
       ELSE /\ \E labels_ok \in BOOLEAN :
                 summary' = [summary EXCEPT
                               !.used_tapes = IF labels_ok THEN Some(pw.used) ELSE None,
                               !.duration = "set"]
            /\ w' = [w EXCEPT !.pc = "returned"]
            /\ jobResult' = [jobResult EXCEPT ![Focus] = "ok"]
            /\ UNCHANGED jpc
            /\ JobKeep
    /\ UNCHANGED <<abort, progress, pw, reader, written, hist>>

\* ------------------------------------------------------ specifications
\* Of the setup the drive is fixed from the start; latest_only,
\* export_media_set and eject_media are drawn where the worker reads them.
\* The datastore a setup names: absent from the configuration ("missing"),
\* configured without maintenance mode ("none"), or under a maintenance type.
Stores == {"missing", "none"} \cup MaintenanceTypes

Setups == [drive : Drives, store : Stores]

InitCommon ==
    /\ privs = [j \in Jobs |-> {"unread"}]
    /\ jpc = [j \in Jobs |-> "call"]
    /\ callErr = [j \in Jobs |-> ""]
    /\ driveLock = [d \in Drives |-> NoJob]
    /\ driveState = [d \in Drives |-> NoJob]
    /\ email = [j \in Jobs |-> FALSE]
    /\ notified = [j \in Jobs |-> "none"]
    /\ cleared = [j \in Jobs |-> "none"]
    /\ jobResult = [j \in Jobs |-> "none"]
    /\ taskResult = [j \in Jobs |-> "none"]
    /\ marked = [j \in Jobs |-> FALSE]
    /\ w = W0
    /\ abort = FALSE
    /\ progress = Progress0
    /\ summary = Summary0
    /\ pw = PoolWriter0
    /\ reader = Reader0
    /\ written = <<>>
    /\ hist = Hist0

\* No function of the API types is being called.
NoCall == [fn |-> "none", pc |-> "none"]

\* The backup job's state at the start.
InitJob == InitCommon /\ call = NoCall

\* One job on drive 1, a small datastore, streams of up to MaxChunks chunks.
Init ==
    /\ setup = [j \in Jobs |-> [drive |-> 1, store |-> "none"]]
    /\ lim = [total |-> MaxTotal, chunks |-> MaxChunks, media |-> MaxMedia,
              listing |-> FALSE]
    /\ InitJob

Call ==
    \/ BackupCheck(Focus) \/ BackupLock(Focus) \/ BackupSpawn(Focus)

Closure ==
    \/ WorkerSetState(Focus) \/ WorkerNotify(Focus) \/ WorkerClearState(Focus)
    \/ WorkerReturn(Focus)

Worker ==
    \/ WorkerEnter \/ WorkerLeave \/ WRefresh \/ WSetup \/ WGroup \/ WContains \/ WSkip
    \/ WMatch
    \/ WCommit \/ CLoad1 \/ CAppend1 \/ CFull \/ CLoad2 \/ CAppend2
    \/ WExport \/ WFinish

Snapshot ==
    \/ SOpen \/ SSpawn \/ SCheck1 \/ SPeek \/ SLoad1 \/ SCheck2 \/ SAppendChunk
    \/ SFull1 \/ SJoin \/ SCheck3 \/ SLoad2 \/ SCheck4 \/ SAppendSnap1 \/ SFull2
    \/ SCheck5 \/ SLoad3 \/ SAppendSnap2

ReaderThread == ReaderFinish \/ ReaderPanic

Next == Call \/ Closure \/ Worker \/ Snapshot \/ ReaderThread \/ RequestAbort

Spec == Init /\ [][Next]_vars

\* One job on drive 1, a larger datastore, streams of up to RunChunks chunks.
InitRun ==
    /\ setup = [j \in Jobs |-> [drive |-> 1, store |-> "none"]]
    /\ lim = [total |-> RunTotal, chunks |-> RunChunks, media |-> RunMedia,
              listing |-> FALSE]
    /\ InitJob

SpecRun == InitRun /\ [][Next]_vars

\* One job on drive 1, any filter and any set of finished snapshots, with the
\* listings kept in the history.
InitList ==
    /\ setup = [j \in Jobs |-> [drive |-> 1, store |-> "none"]]
    /\ lim = [total |-> ListTotal, chunks |-> ListChunks, media |-> ListMedia,
              listing |-> TRUE]
    /\ InitJob

SpecList == InitList /\ [][Next]_vars

\* Several calls, each naming any drive and a datastore that is not under
\* maintenance; the transfer is one step.
InitJobs ==
    /\ setup \in [Jobs -> {s \in Setups : s.store = "none"}]
    /\ lim = [total |-> 0, chunks |-> 0, media |-> 0, listing |-> FALSE]
    /\ InitJob

NextJobs ==
    \E j \in Jobs :
        \/ BackupCheck(j) \/ BackupLock(j) \/ BackupSpawn(j)
        \/ WorkerSetState(j) \/ Transfer(j) \/ WorkerNotify(j)
        \/ WorkerClearState(j) \/ WorkerReturn(j)

SpecJobs == InitJobs /\ [][NextJobs]_vars

\* Several calls, call j on drive j (modulo the drives), each naming a
\* datastore in any state.
InitStores ==
    /\ setup \in {f \in [Jobs -> Setups] : \A j \in Jobs : f[j].drive = ((j - 1) % NDrives) + 1}
    /\ lim = [total |-> 0, chunks |-> 0, media |-> 0, listing |-> FALSE]
    /\ InitJob

SpecStores == InitStores /\ [][NextJobs]_vars

\* One job with a single snapshot to transfer and a longer stream.  The worker
\* thread and the reader thread are scheduled: a statement that can execute
\* eventually does, and a running reader thread eventually ends.
InitLive ==
    /\ setup = [j \in Jobs |-> [drive |-> 1, store |-> "none"]]
    /\ lim = [total |-> LiveTotal, chunks |-> LiveChunks, media |-> LiveMedia,
              listing |-> FALSE]
    /\ InitJob

SpecLive ==
    /\ InitLive /\ [][Next]_vars
    /\ WF_vars(Call \/ Closure \/ Worker \/ Snapshot)
    /\ WF_vars(ReaderThread)

\* Characters of the names and texts explored.
NameChars == {"e", "-", "x"}

\* The strings over NameChars of up to n characters.
StringsUpTo(n) == UNION {[1..k -> NameChars] : k \in 0..n}

\* Beginnings of texts: the four literals, cut short, and others.
Stems ==
    {<<>>, S_offline, S_online, S_vault, S_cloud,
     SubSeq(S_offline, 1, 6), SubSeq(S_online, 1, 6), SubSeq(S_vault, 1, 5),
     SubSeq(S_cloud, 1, 5), <<"x">> \o S_vault, <<"O">> \o SubSeq(S_offline, 2, 7)}

MediaLocations ==
    {Offline} \cup UNION {{Online(n), Vault(n), Cloud(n)} : n \in StringsUpTo(MaxName)}

Texts == {stem \o t : stem \in Stems, t \in StringsUpTo(MaxName)}

\* One call of a function of the API types, on any input.
InitTypes ==
    /\ setup = [j \in Jobs |-> [drive |-> 1, store |-> "none"]]
    /\ lim = [total |-> 0, chunks |-> 0, media |-> 0, listing |-> FALSE]
    /\ InitCommon
    /\ \/ \E k \in KeepOptions :
            call = [fn |-> "keeps_something", pc |-> "called", arg |-> k,
                    text |-> <<>>, ret |-> "none"]
       \/ \E v \in MediaLocations :
            call = [fn |-> "to_string", pc |-> "called", arg |-> v,
                    text |-> <<>>, ret |-> ParseError]
       \/ \E t \in Texts :
            call = [fn |-> "from_str", pc |-> "called", arg |-> Offline,
                    text |-> t, ret |-> ParseError]

NextTypes == KeepsSomethingCall \/ DisplayCall \/ FromStrCall

SpecTypes == InitTypes /\ [][NextTypes]_vars

\* ---------------------------------------------------------- properties
Range(s) == {s[i] : i \in 1..Len(s)}

DriveOf(j) == setup[j].drive

\* Positions of a call whose worker thread exists.
WorkerPcs == {"w_start", "transfer", "notify", "clear", "return"}

\* C1: for any interleaving of backup() calls at most one worker owns a drive:
\* the lock of the drive is held by the call from before its worker is
\* spawned until the worker ends, and a call that finds the lock held is
\* rejected at once, has no worker and has written neither lock nor marker.
C1_OneWorkerPerDrive ==
    /\ \A j, k \in Jobs :
         (j # k /\ DriveOf(j) = DriveOf(k))
            => ~(jpc[j] \in WorkerPcs /\ jpc[k] \in WorkerPcs)
    /\ \A j \in Jobs :
         jpc[j] \in WorkerPcs \cup {"spawn"} => driveLock[DriveOf(j)] = j
    /\ \A j \in Jobs :
         callErr[j] = "locked" =>
            /\ jpc[j] = "rejected"
            /\ taskResult[j] = "none" /\ jobResult[j] = "none" /\ ~marked[j]
            /\ \A d \in Drives : driveLock[d] # j /\ driveState[d] # j

\* A call is rejected for the lock while the worker of another call runs on
\* the same drive.
C1_Witness ==
    \E j, k \in Jobs :
        /\ j # k /\ DriveOf(j) = DriveOf(k)
        /\ callErr[j] = "locked" /\ jpc[k] = "transfer"

PrivErrors == {"priv_datastore", "priv_drive", "priv_pool"}

\* C2: when the caller lacks any of the three privileges, backup() returns an
\* error (that of the first failing check, unless the user information could
\* not be loaded at all) and nothing has happened: no lock, no worker, no
\* drive-state marker, no pool-writer operation.
C2_DeniedNoSideEffects ==
    (privs[Focus] # {"unread"} /\ privs[Focus] # AclPaths) =>
        /\ jpc[Focus] = "rejected" /\ callErr[Focus] \in PrivErrors \cup {"user_info"}
        /\ \A d \in Drives : driveLock[d] # Focus /\ driveState[d] # Focus
        /\ ~marked[Focus] /\ taskResult[Focus] = "none" /\ jobResult[Focus] = "none"
        /\ w = W0 /\ hist.ops = {} /\ pw = PoolWriter0

\* The caller may read the datastore and write the drive, but not the pool.
C2_Witness ==
    /\ privs[Focus] = {"datastore", "drive"}
    /\ jpc[Focus] = "rejected" /\ callErr[Focus] = "priv_pool"

\* C3 (as stated): once the worker that set the marker has finished, the
\* marker no longer holds its task id.
C3_MarkerCleared ==
    (jpc[Focus] = "done" /\ marked[Focus]) => driveState[DriveOf(Focus)] # Focus

\* C3 (amended): on every exit path of the transfer the worker that set the
\* marker calls set_tape_device_state(drive, "") before it finishes, and the
\* marker is empty whenever that call succeeded.
C3_ClearAttempted ==
    (jpc[Focus] \in {"return", "done"} /\ marked[Focus]) =>
        /\ cleared[Focus] \in {"ok", "err"}
        /\ cleared[Focus] = "ok" => driveState[DriveOf(Focus)] = NoJob

\* An aborted, failed job whose worker has finished with the marker cleared.
C3_Witness ==
    /\ jpc[Focus] = "done" /\ marked[Focus] /\ abort
    /\ jobResult[Focus] = "err" /\ cleared[Focus] = "ok"

\* C4: a failure of the online-media refresh (labels, inventory,
\* reconciliation) never makes the job fail.
C4_RefreshNonFatal ==
    w.refresh \in RefreshFailures => jobResult[Focus] # "err"

\* C5: a snapshot the media set contains is skipped: no reader is spawned and
\* no pool-writer call is made for it, backup_snapshot is not entered and the
\* snapshot is not in the summary; backup_snapshot runs only for snapshots the
\* media set does not contain.
C5_ContainedSkipped ==
    /\ hist.contained = "yes" =>
         /\ w.pc \in {"w_skip", "w_group", "returned"}
         /\ hist.curOps = {} /\ reader.state = "none"
         /\ Cur \notin Range(summary.snapshot_list) /\ Cur \notin hist.fully
    /\ (InSnapshotCall \/ w.pc = "w_match") => hist.contained = "no"

\* A snapshot is skipped after an earlier one was transferred.
C5_Witness ==
    /\ w.pc = "w_skip" /\ hist.contained = "yes"
    /\ summary.snapshot_list # <<>>

\* C6: when the media set contains every selected snapshot, nothing is
\* written: no reader, no chunk, snapshot or catalog archive, no medium loaded
\* or marked Full, and the summary names no snapshot and no used tape.
C6_RerunNoOp ==
    hist.allContained =>
        /\ hist.ops \cap {"spawn", "load", "chunk", "snap", "catalog", "full"} = {}
        /\ pw.loaded = 0 /\ pw.full = {} /\ pw.used = {}
        /\ summary.snapshot_list = <<>>
        /\ summary.used_tapes \in {None, Some({})}

\* A job over two snapshots, both contained, has returned Ok.
C6_Witness ==
    /\ w.pc = "returned" /\ jobResult[Focus] = "ok"
    /\ hist.allContained /\ hist.listed >= 2
    /\ summary.used_tapes = Some({})

Chunks(log) == [i \in 1..Len(log) |-> log[i][2]]

\* The first n chunks of the reader's sequence.
Stream(n) == [i \in 1..n |-> i]

AfterChunkLoop ==
    w.pc \in {"s_join", "s_check3", "s_load2", "s_check4", "s_snap1", "s_full2",
              "s_check5", "s_load3", "s_snap2"}

\* C7: on LEOM the medium just loaded is marked Full and the next append goes
\* to another, writable medium; the chunks written, in write order over all
\* media, are at any time the chunks taken from the stream so far and, when
\* the loop has ended, the reader's whole sequence.
C7_StreamSurvivesRotation ==
    /\ reader.state # "none" => Chunks(written) = Stream(reader.pos)
    /\ AfterChunkLoop => Chunks(written) = Stream(reader.len)
    /\ w.pc = "s_append" => pw.loaded = w.uuid /\ pw.loaded \notin pw.full
    /\ w.pc = "s_full1" => w.leom /\ w.uuid = hist.appends[Len(hist.appends)].m
    /\ \A i \in 1..Len(hist.appends) :
         (hist.appends[i].leom /\ (i < Len(hist.appends) \/ AfterChunkLoop))
            => hist.appends[i].m \in pw.full
    /\ \A i \in 1..(Len(hist.appends) - 1) :
         hist.appends[i].leom /\ hist.appends[i + 1].m # hist.appends[i].m

\* A stream of two chunks has been written to two media.
C7_Witness ==
    /\ w.pc = "s_join" /\ reader.len = 2 /\ Len(written) = 2
    /\ written[1][1] # written[2][1]

\* The first medium took exactly K >= 1 chunks of a stream of K + 1 and
\* reported LEOM; no later medium reported LEOM; the loop has ended.
C8_Scenario ==
    /\ w.pc = "s_join" /\ reader.state = "done"
    /\ Len(hist.appends) >= 1
    /\ hist.appends[1].leom /\ hist.appends[1].k >= 1
    /\ reader.len = hist.appends[1].k + 1
    /\ \A i \in 2..Len(hist.appends) : ~hist.appends[i].leom

\* C8: with a first medium that holds exactly K chunks and a stream of K + 1
\* the loop rotates once: one set_media_status_full, on the first medium, two
\* load_writable_media, and the K + 1 chunks on the two media in order.
C8_OneRotation ==
    C8_Scenario =>
        /\ hist.loopFulls = <<hist.appends[1].m>>
        /\ hist.loopLoads = 2
        /\ Len(hist.appends) = 2 /\ hist.appends[2].m # hist.appends[1].m
        /\ written = [i \in 1..reader.len |->
                        <<IF i < reader.len THEN hist.appends[1].m
                          ELSE hist.appends[2].m, i>>]

C8_Witness == C8_Scenario /\ hist.loopLoads = 2 /\ Len(written) = 2

\* C9: for one snapshot append_snapshot_archive is called at most twice and
\* at most two media are loaded for it; the second call is made only after a
\* first one that was not done, with the first medium marked Full, on another
\* medium.
C9_OneRetry ==
    /\ Len(hist.snapTries) <= 2 /\ hist.snapLoads <= 2
    /\ w.pc \in {"s_check5", "s_load3", "s_snap2"} =>
         /\ Len(hist.snapTries) = 1 /\ ~hist.snapTries[1].done
         /\ hist.snapTries[1].m \in pw.full
    /\ Len(hist.snapTries) = 2 =>
         /\ ~hist.snapTries[1].done
         /\ hist.snapTries[1].m \in pw.full
         /\ hist.snapTries[2].m # hist.snapTries[1].m
         /\ hist.snapLoads = 2

\* The archive did not fit on the first medium and was written to the second.
C9_Witness ==
    /\ w.pc = "w_match" /\ Len(hist.snapTries) = 2
    /\ hist.snapTries[2].done

\* C10: an archive not done on the first and not on the second medium ends
\* the job with a fatal error and its snapshot is not in the summary; every
\* snapshot in the summary had an append_snapshot_archive that was done.
C10_SecondFailureFatal ==
    /\ (Len(hist.snapTries) = 2 /\ ~hist.snapTries[2].done) =>
         /\ w.pc = "returned" /\ w.err = "second_media"
         /\ jobResult[Focus] = "err"
         /\ Cur \notin Range(summary.snapshot_list)
    /\ Range(summary.snapshot_list) \subseteq hist.fully

\* The second snapshot of a job fails on both media after the first succeeded.
C10_Witness ==
    /\ Len(hist.snapTries) = 2 /\ ~hist.snapTries[2].done
    /\ summary.snapshot_list # <<>>

\* C11: when a snapshot's transfer ended with the Error outcome the job is
\* reported failed, and the summary still lists every snapshot whose transfer
\* returned Success.
C11_PartialFailure ==
    /\ ("Error" \in hist.outcomes /\ w.pc \in {"returned", "left"})
          => jobResult[Focus] = "err"
    /\ ("Error" \in hist.outcomes /\ jpc[Focus] = "done") => taskResult[Focus] = "err"
    /\ w.pc # "w_match" => Range(summary.snapshot_list) = hist.fully

\* Three groups of one snapshot each; that of group 2 was unreadable, those of
\* groups 1 and 3 are in the summary and the job has failed.
C11_Witness ==
    /\ w.pc = "returned" /\ w.err = "some_errors" /\ jobResult[Focus] = "err"
    /\ "Error" \in hist.outcomes
    /\ summary.snapshot_list = << <<1, 1>>, <<3, 1>> >>

\* Snapshots or groups of the ordered work list that the loops have not visited.
WorkLeft == w.snapshot_list # <<>> \/ w.group_list # <<>>

\* C12: an unreadable snapshot (the reader cannot be opened, or the chunk
\* stream delivers a read error) is counted as an error of the job and the
\* later snapshots of the work list are still processed: backup_worker does
\* not return on a read error while work is left.
C12_UnreadableRecovered ==
    /\ (w.pc = "w_match" /\ w.sres = "Error") => "Error" \in hist.outcomes
    /\ (w.pc = "returned" /\ WorkLeft) => w.err # "read"

\* C13: a failure to join the chunk reader thread ends only the current
\* snapshot's transfer: backup_worker does not return on it while work is left.
C13_JoinFailureLocal ==
    (w.pc = "returned" /\ WorkLeft) => w.err # "join"

\* C14: a snapshot that vanished before it could be opened is ignored: no
\* reader or pool-writer call is made for it, it is not put in the summary,
\* it does not set the error flag (only an Error outcome does, and only then
\* the job ends with "some errors"), and the loops go on.
C14_VanishedIgnored ==
    /\ (w.pc = "w_match" /\ w.sres = "Ignored")
          => hist.curOps = {} /\ Cur \notin hist.fully
    /\ Range(summary.snapshot_list) \subseteq hist.fully
    /\ w.errors => "Error" \in hist.outcomes
    /\ (w.pc = "returned" /\ w.err = "some_errors") => "Error" \in hist.outcomes

\* A snapshot vanished, the one after it (the last of the work list) was
\* written, and the job ended successfully with only the latter in the summary.
C14_Witness ==
    /\ w.pc = "returned" /\ jobResult[Focus] = "ok" /\ ~w.errors
    /\ hist.outcomes = {"Ignored", "Success"}
    /\ hist.listed = 2 /\ hist.allContained = FALSE
    /\ Cur = <<2, 1>> /\ summary.snapshot_list = << <<2, 1>> >>

\* C15 as stated: once abort is raised between two append_chunk_archive calls
\* of a chunk loop, no load_writable_media and no append call is made any
\* more, and backup_worker returns the abort error.
C15_NoCallAfterAbort ==
    hist.loopAbort =>
        /\ hist.afterAbort = <<>>
        /\ w.pc = "returned" => w.err = "abort"

\* C15, amended: the abort flag is raised asynchronously and is noticed at the
\* next check_abort.  After an abort raised between two append_chunk_archive
\* calls at most one more call is made, the load_writable_media or the
\* append_chunk_archive whose preceding check had already passed; no snapshot
\* or catalog archive is appended, control does not get past the check that
\* follows the chunk loop, and backup_worker returns an error: the abort
\* error, unless the stream, the reader thread or the pool-writer call in
\* progress (set_media_status_full included) failed first.
C15_AbortInChunkLoop ==
    hist.loopAbort =>
        /\ Len(hist.afterAbort) <= 1
        /\ Range(hist.afterAbort) \subseteq {"load", "chunk"}
        /\ w.pc \in ChunkLoopPcs \cup {"s_join", "s_check3", "returned"}
        /\ w.pc = "returned" =>
              /\ jobResult[Focus] = "err"
              /\ w.err \in {"abort", "pool_writer", "read", "join"}
              /\ w.err = "pool_writer" => hist.last \in {"load", "chunk", "full"}

\* Abort was raised after the loop's first check had passed: one more medium
\* was loaded, then the check before the append ended the task.
C15_Witness ==
    /\ hist.loopAbort /\ w.pc = "returned" /\ w.err = "abort"
    /\ hist.afterAbort = <<"load">> /\ hist.last = "check"
    /\ Len(hist.appends) = 1

\* Statements that call load_writable_media, and all that call the pool writer.
LoadPcs == {"s_load1", "s_load2", "s_load3", "c_load1", "c_load2"}
PoolOpPcs ==
    LoadPcs \cup {"s_spawn", "s_append", "s_full1", "s_snap1", "s_full2", "s_snap2",
                  "w_commit", "c_append1", "c_full", "c_append2", "w_export"}

\* C16: abort is checked before every load_writable_media call (no pool-writer
\* call lies between the check and the load), and after an archive append
\* no pool-writer operation is issued before abort has been checked again.
C16_AbortChecked ==
    /\ w.pc \in LoadPcs => hist.last = "check"
    /\ w.pc \in PoolOpPcs => hist.last \notin {"chunk", "snap"}

\* C17: once abort has been requested, at most one more medium load or
\* archive append (the call in progress) is made, and a worker that made a
\* call after the request does not return success.
C17_NoWriteAfterAbort ==
    /\ Len(hist.afterAbort) <= 1
    /\ (hist.afterAbort # <<>> /\ w.pc = "returned") => jobResult[Focus] = "err"

\* C18: commit() is called at most once, exactly once before the final
\* export_media_set / eject_media, and every archive write of the run (the
\* catalog archive included) precedes it.
C18_CommitAfterWrites ==
    /\ pw.commits <= 1
    /\ {"export", "eject"} \cap hist.ops # {} => pw.commits = 1
    /\ hist.last \in {"chunk", "snap", "catalog"} => pw.commits = 0

\* C19: the catalog archive is appended only in a run that called an archive
\* append for a chunk or a snapshot archive, and a run that did so and reached
\* the final action has appended the catalog.
C19_CatalogIffWritten ==
    /\ "catalog" \in hist.ops => {"chunk", "snap"} \cap hist.ops # {}
    /\ (w.pc = "w_export" /\ {"chunk", "snap"} \cap hist.ops # {})
          => "catalog" \in hist.ops

\* C20: append_catalog_archive is called at most twice in a job and at most
\* two media are loaded for the catalog; the second call is made only after a
\* first one that was not done, with the first medium marked Full, on another
\* medium; when the second call is not done either the job fails.
C20_CatalogOneRetry ==
    /\ Len(hist.catTries) <= 2 /\ hist.catLoads <= 2
    /\ w.pc \in {"c_load2", "c_append2"} =>
         /\ Len(hist.catTries) = 1 /\ ~hist.catTries[1].done
         /\ hist.catTries[1].m \in pw.full
    /\ Len(hist.catTries) = 2 =>
         /\ ~hist.catTries[1].done
         /\ hist.catTries[1].m \in pw.full
         /\ hist.catTries[2].m # hist.catTries[1].m
         /\ hist.catLoads = 2
         /\ ~hist.catTries[2].done =>
              /\ w.pc = "returned" /\ w.err = "catalog_second_media"
              /\ jobResult[Focus] = "err"

\* The catalog did not fit on the first medium and was written to the second.
C20_Witness ==
    /\ w.pc = "w_export" /\ Len(hist.catTries) = 2
    /\ hist.catTries[2].done

\* C21: export takes precedence over eject: export_media_set is called only
\* when export is requested and then eject_media is not called; eject_media is
\* called only when eject is requested and export is not; a job that got past
\* the final action has made the call that was asked for; neither call is
\* made before commit().
C21_ExportPrecedence ==
    /\ "export" \in hist.ops => hist.asked.export /\ "eject" \notin hist.ops
    /\ "eject" \in hist.ops => hist.asked.eject /\ ~hist.asked.export
    /\ (w.pc = "w_finish" /\ hist.asked.export) => "export" \in hist.ops
    /\ (w.pc = "w_finish" /\ hist.asked.eject /\ ~hist.asked.export)
          => "eject" \in hist.ops
    /\ {"export", "eject"} \cap hist.ops # {} => "commit" \in hist.ops /\ pw.commits = 1

\* Both export and eject were requested: only export_media_set was called.
C21_Witness ==
    /\ w.pc = "w_finish" /\ hist.asked.export /\ hist.asked.eject
    /\ "export" \in hist.ops /\ "eject" \notin hist.ops /\ pw.commits = 1

\* The loops are at a snapshot of the current group.
AtSnapshot == w.pc \in {"w_contains", "w_skip", "w_match"} \/ InSnapshotCall

\* Every element of the list is larger than `prev` and than those before it.
Ascending(prev, list) ==
    /\ \A i \in 1..Len(list) : prev < list[i]
    /\ \A i, j \in 1..Len(list) : i < j => list[i] < list[j]

\* C22: groups are taken in ascending identity order whatever the discovery
\* order was and whatever the filter kept, and within a group the snapshots
\* are taken oldest first: each group or snapshot taken follows the one
\* before it, those still to come follow the current one in ascending order,
\* and without latest-only the k-th snapshot taken is the k-th oldest
\* finished one.
C22_ProcessingOrder ==
    /\ hist.inOrder
    /\ Ascending(w.group, w.group_list)
    /\ Ascending(w.snapshot, w.snapshot_list)
    /\ hist.discovered # <<>> =>
          /\ w.group = 0
          /\ Range(w.group_list) \subseteq Range(hist.discovered)
    /\ (AtSnapshot /\ ~w.latest_only) =>
          /\ w.snapshot_number \in 1..Len(hist.finished)
          /\ w.snapshot = hist.finished[w.snapshot_number]
          /\ w.snapshot_list =
                SubSeq(hist.finished, w.snapshot_number + 1, Len(hist.finished))

\* Groups discovered as b, a, c are about to be processed as a, b, c.
C22_Witness ==
    /\ w.pc = "w_group" /\ hist.discovered = <<2, 1, 3>>
    /\ w.group_list = <<1, 2, 3>>

\* The newest of the current group's finished snapshots.
Newest == hist.finished[Len(hist.finished)]

\* The snapshot loop of the current group has ended.
GroupDone == w.pc = "w_group" /\ hist.finished # <<>>

\* C23 as stated: in latest-only mode, once a group with finished snapshots
\* t1 < t2 < t3 has been processed, only t3 was passed on and the progress
\* shows one done snapshot.
C23_OneDoneUnit ==
    (w.latest_only /\ GroupDone /\ Len(hist.finished) = 3) =>
        /\ hist.passed = {Newest}
        /\ progress.done_snapshots = 1

\* C23, amended: in latest-only mode only the newest finished snapshot of a
\* group is passed to contains_snapshot and backup_snapshot, and the group
\* counts one snapshot (group_snapshots = 1).  done_snapshots becomes 1 when
\* backup_snapshot has returned for that snapshot (Success, Error or Ignored);
\* it stays 0 when the snapshot is skipped because the media set contains it.
C23_LatestOnly ==
    w.latest_only =>
        /\ hist.finished # <<>> => hist.passed \subseteq {Newest}
        /\ AtSnapshot =>
              /\ w.snapshot = Newest /\ w.snapshot_list = <<>>
              /\ progress.group_snapshots = 1
              /\ progress.done_snapshots = 0
        /\ GroupDone =>
              /\ hist.passed = {Newest}
              /\ progress.group_snapshots = 1
              /\ progress.done_snapshots = (IF hist.contained = "no" THEN 1 ELSE 0)

\* Of three finished snapshots only the newest was transferred; one done unit.
C23_Witness ==
    /\ w.latest_only /\ GroupDone /\ hist.finished = <<1, 2, 3>>
    /\ hist.passed = {3} /\ progress.done_snapshots = 1
    /\ summary.snapshot_list = << <<w.group, 3>> >>

\* C24: a snapshot that is not finished is never passed to contains_snapshot
\* or backup_snapshot and never gets into the summary, and for a group without
\* any finished snapshot no pool-writer call is made.
C24_OnlyFinished ==
    /\ hist.passed \cap hist.unfinished = {}
    /\ hist.passed \subseteq Range(hist.finished)
    /\ AtSnapshot => w.snapshot \in Range(hist.finished) \ hist.unfinished
    /\ \A s \in Range(summary.snapshot_list) :
          s[1] = w.group => s[2] \notin hist.unfinished
    /\ (w.group # 0 /\ hist.finished = <<>> /\ hist.unfinished # {}) =>
          /\ w.pc \in {"w_group", "returned"}
          /\ hist.contained = "none" /\ hist.curOps = {} /\ hist.passed = {}

\* A group with finished snapshots 1 and 3 and the unfinished snapshot 2: the
\* two finished ones were transferred and are in the summary.
C24_Witness ==
    /\ GroupDone /\ hist.finished = <<1, 3>> /\ hist.unfinished = {2}
    /\ hist.passed = {1, 3}
    /\ summary.snapshot_list = << <<w.group, 1>>, <<w.group, 3>> >>

\* The job task holds the snapshot reader's mutex: from the lock() at line 471
\* to the end of backup_snapshot.
WriterHoldsReader == w.pc \in {"s_snap1", "s_full2", "s_check5", "s_load3", "s_snap2"}

\* The chunk reader thread is alive and may use the snapshot reader.
ReaderTaskAlive == reader.state = "running"

\* C25: the job task and the chunk reader thread never use the snapshot reader
\* at the same time: while the job task holds its mutex the stream has been
\* read to its end and the reader thread has been joined.
C25_ReaderExclusive ==
    /\ ~(WriterHoldsReader /\ ReaderTaskAlive)
    /\ WriterHoldsReader =>
          /\ reader.state = "done"
          /\ reader.pos = Total(reader) /\ Peek(reader) = "None"

\* A stream of chunks was written and its thread joined; the job task is at
\* the snapshot archive.
C25_Witness ==
    /\ w.pc = "s_snap1" /\ reader.state = "done"
    /\ reader.len >= 1 /\ reader.pos = reader.len /\ Len(written) = reader.len

\* C26: when backup_snapshot has returned, with whatever outcome, the chunk
\* reader thread it spawned has ended.
C26_ReaderEndsWithSnapshot ==
    w.pc \in {"w_match", "returned"} => ~ReaderTaskAlive

\* C27: once backup_worker has returned, with Ok or with Err, the closure
\* attempts a notification to the address of the user to notify (when that
\* user has one), and the task's result is backup_worker's result whether the
\* delivery worked or not: Ok exactly when backup_worker completed its summary.
C27_NotifyBestEffort ==
    /\ jpc[Focus] \in {"clear", "return"} =>
          /\ jobResult[Focus] \in {"ok", "err"}
          /\ ~email[Focus] => notified[Focus] = "none"
          /\ email[Focus] => notified[Focus] \in {"sent", "failed"}
    /\ (jpc[Focus] = "done" /\ jobResult[Focus] # "none") =>
          /\ taskResult[Focus] = jobResult[Focus]
          /\ taskResult[Focus] = "ok" <=> summary.duration = "set"
          /\ email[Focus] => notified[Focus] \in {"sent", "failed"}

\* The transfer succeeded, the notification could not be delivered, and the
\* task still ended with Ok.
C27_Witness ==
    /\ jpc[Focus] = "done" /\ email[Focus] /\ notified[Focus] = "failed"
    /\ jobResult[Focus] = "ok" /\ taskResult[Focus] = "ok"
    /\ summary.snapshot_list # <<>>

\* Statements that append an archive to the loaded medium.
AppendPcs == {"s_append", "s_snap1", "s_snap2", "c_append1", "c_append2"}

\* The media status of the session: every archive append goes to the loaded
\* medium, which is not Full; every other medium handed out so far is Full.
MediaStatusOk ==
    /\ w.pc \in AppendPcs => pw.loaded # 0 /\ pw.loaded \notin pw.full
    /\ pw.full \subseteq 1..pw.allocated
    /\ \A m \in 1..pw.allocated : m # pw.loaded => m \in pw.full

\* Within a session a medium marked Full stays Full (the session ends when
\* the PoolWriter is dropped).
FullStaysFull == pw.full \subseteq pw'.full \/ pw' = PoolWriter0

\* C28: a medium's status only moves from writable to Full: no append targets
\* a medium after set_media_status_full was called for it, a Full medium is
\* never writable again, and at most one medium is the loaded writable one.
C28_FullIsFinal == [](MediaStatusOk) /\ [][FullStaysFull]_vars

\* The snapshot archive did not fit on medium 1, which is Full; the retry is
\* about to append to medium 2.
C28_Witness ==
    /\ w.pc = "s_snap2" /\ pw.full = {1} /\ pw.loaded = 2
    /\ Len(hist.snapTries) = 1 /\ hist.snapTries[1].m = 1

\* A step of backup_worker between StoreProgress::new and its return.
RunStep == w.pc \notin {"idle", "w_refresh", "w_setup"} /\ w'.pc # "left"

\* C29 as stated: no step of a run lowers done_groups or done_snapshots.
C29_CountersMonotone ==
    [][RunStep => /\ progress.done_groups <= progress'.done_groups
                  /\ progress.done_snapshots <= progress'.done_snapshots]_vars

\* The group loop takes a group: lines 264-267.
GroupStart == w.pc = "w_group" /\ w.group_list # <<>> /\ w' # w

\* C29, amended: done_groups never decreases within a run; done_snapshots
\* counts within the current group: it never decreases while the group is
\* processed and is set back to 0 when, and only when, the group loop takes
\* the next group.
C29_CountersPerGroup ==
    [][RunStep =>
         /\ progress.done_groups <= progress'.done_groups
         /\ GroupStart => progress'.done_snapshots = 0
         /\ ~GroupStart => progress.done_snapshots <= progress'.done_snapshots]_vars

\* The second group has been taken after a snapshot of the first one was
\* done: done_snapshots is back at 0.
C29_Witness ==
    /\ w.pc = "w_contains" /\ w.group_number = 2
    /\ progress.done_groups = 1 /\ progress.done_snapshots = 0
    /\ Len(summary.snapshot_list) = 1

\* Calls whose datastore lookup (line 138) has been reached and decided.
LookedUp(j) ==
    /\ jpc[j] # "call"
    /\ callErr[j] \notin {"auth_id", "user_info", "priv_datastore", "priv_drive", "priv_pool"}

\* What MaintenanceMode::check admits, as a table.
Admitted(ty, operation) ==
    CASE ty = "Delete"   -> FALSE
      [] ty = "Offline"  -> operation = "Lookup"
      [] ty = "ReadOnly" -> operation # "Write"

\* C30: MaintenanceMode::check rejects every operation under type Delete;
\* otherwise it allows Lookup; under Offline it rejects Read, Write and an
\* unspecified operation; under ReadOnly it rejects only Write.  So the
\* datastore lookup of a backup call, made with Operation::Read, passes under
\* read-only maintenance and fails under offline or delete maintenance.
C30_MaintenanceCheck ==
    /\ \A ty \in MaintenanceTypes, operation \in Operations :
         MaintenanceCheck(ty, operation) = Admitted(ty, operation)
    /\ \A j \in Jobs :
         LookedUp(j) =>
           /\ setup[j].store = "ReadOnly" => callErr[j] # "lookup"
           /\ setup[j].store \in {"Offline", "Delete"} => callErr[j] = "lookup"

C30_Witness ==
    \E i, j \in Jobs :
       /\ setup[i].store = "ReadOnly" /\ jpc[i] = "lock" /\ callErr[i] = ""
       /\ setup[j].store = "Offline" /\ jpc[j] = "rejected" /\ callErr[j] = "lookup"

\* Statements that mark the medium held in `uuid` Full.
FullPcs == {"s_full1", "s_full2", "c_full"}

LastOf(s) == s[Len(s)]

\* The append result that leads to the set_media_status_full about to be made.
FullCause ==
    CASE w.pc = "s_full1" -> hist.appends # <<>> /\ LastOf(hist.appends).leom
                             /\ LastOf(hist.appends).m = w.uuid
      [] w.pc = "s_full2" -> hist.snapTries # <<>> /\ ~LastOf(hist.snapTries).done
                             /\ LastOf(hist.snapTries).m = w.uuid
      [] w.pc = "c_full"  -> hist.catTries # <<>> /\ ~LastOf(hist.catTries).done
                             /\ LastOf(hist.catTries).m = w.uuid

\* C31: every archive append (chunk, snapshot, catalog) directly follows a
\* load_writable_media, with no set_media_status_full in between; every
\* set_media_status_full names the medium the latest load returned, and the
\* call before it is the append to that medium that reported LEOM or "not done".
C31_LoadAppendFull ==
    /\ w.pc \in AppendPcs => hist.lastMedia = "load"
    /\ w.pc \in FullPcs =>
         /\ w.uuid = pw.loaded
         /\ hist.lastMedia \in {"chunk", "snap", "catalog"}
         /\ hist.last = hist.lastMedia
         /\ FullCause

C31_Witness ==
    /\ w.pc = "c_append2" /\ hist.lastMedia = "load"
    /\ Len(hist.catTries) = 1 /\ pw.loaded \notin pw.full
    /\ LastOf(hist.catTries).m \in pw.full

\* The calls that end a run: commit, catalog append, export / eject.
EndOps == {"commit", "catalog", "export", "eject"}

\* Errors backup_snapshot returns as Err: abort, chunk read error, failed
\* reader join, pool-writer error, archive incomplete on the second medium.
SnapshotFatal == {"abort", "read", "join", "pool_writer", "second_media"}

\* A step of backup_snapshot that ends it with Err.
SnapshotFails == InSnapshotCall /\ w.err = "" /\ w'.err # ""

\* backup_worker has returned.
WorkerOver == w.pc \in {"returned", "left"}

\* C32: when backup_snapshot ends with a fatal error, backup_worker returns
\* that error at once: no further snapshot or group is taken, and commit, the
\* catalog append and export / eject are not called in that run.
C32_FatalStopsRun ==
    [][/\ SnapshotFails =>
            /\ w'.err \in SnapshotFatal
            /\ w'.pc = "returned" /\ jobResult'[Focus] = "err"
            /\ hist'.ops \cap EndOps = {}
       /\ WorkerOver =>
            /\ w'.pc \in {"returned", "left"}
            /\ w'.group_list = <<>> \/ w'.group_list = w.group_list
            /\ hist'.ops \subseteq hist.ops
            /\ pw'.commits <= pw.commits
            /\ summary' = summary]_vars

C32_Witness ==
    /\ w.pc = "returned" /\ w.err = "second_media"
    /\ Len(summary.snapshot_list) = 1
    /\ w.group_list # <<>>
    /\ hist.ops \cap EndOps = {}

\* The marker of drive d is written in this step.
MarkerWritten(d) == driveState'[d] # driveState[d]

\* C33: the drive-state marker is written only by the worker that holds the
\* drive's lock: it sets its own marker after the lock was taken and clears
\* its own marker before the lock is released, so no job's cleanup erases the
\* marker of a later job.
C33_MarkerUnderLock ==
    [][\A d \in Drives :
         MarkerWritten(d) =>
           LET h == driveLock[d] IN
           /\ h # NoJob /\ driveLock'[d] = h /\ DriveOf(h) = d
           /\ \/ jpc[h] = "w_start" /\ jpc'[h] = "transfer" /\ driveState'[d] = h
              \/ /\ jpc[h] = "clear" /\ jpc'[h] = "return"
                 /\ driveState[d] = h /\ driveState'[d] = NoJob]_vars

C33_Witness ==
    \E i, j \in Jobs :
       /\ i # j /\ DriveOf(i) = DriveOf(j)
       /\ jpc[i] = "done" /\ cleared[i] = "ok"
       /\ driveLock[DriveOf(j)] = j /\ driveState[DriveOf(j)] = j

\* The main thread is in the chunk loop of backup_snapshot.
InChunkLoop == w.pc \in ChunkLoopPcs

\* The chunk loop is over with the stream exhausted and the reader thread
\* joined (join() returned, with the thread's result or with its panic).
LoopFinished ==
    \/ w.pc = "s_check3" /\ reader.pos = Total(reader) /\ reader.state = "done"
    \/ w.pc = "returned" /\ w.err = "join" /\ reader.pos = Total(reader)

\* A freshly loaded medium reported LEOM without accepting a chunk.
NoProgress ==
    \E i \in 1..Len(hist.appends) :
       hist.appends[i].fresh /\ hist.appends[i].leom /\ hist.appends[i].k = 0

\* The hypotheses the statement names do not hold (any more).
Excused == abort \/ reader.err \/ NoProgress

\* A `?` on a pool-writer call of the loop returned Err.
PoolWriterFailed == w.pc = "returned" /\ w.err = "pool_writer"

SomeErrors == w.pc = "returned" /\ w.err = "some_errors"

\* C35: when the job fails with "finished with some errors", commit, the
\* catalog append (when needed) and the export / eject asked for have been
\* made, and the summary's used tapes and duration are unset; these two
\* fields are assigned only in a run that succeeds.
C35_ErrorsAfterFinalSteps ==
    /\ SomeErrors =>
         /\ "commit" \in hist.ops /\ pw.commits = 1
         /\ w.need_catalog =>
              hist.catTries # <<>> /\ LastOf(hist.catTries).done
         /\ LET op == FinalAction(hist.asked.export, hist.asked.eject) IN
              op # "none" => op \in hist.ops
         /\ summary.used_tapes = None /\ summary.duration = "unset"
    /\ (summary.used_tapes # None \/ summary.duration # "unset") =>
         jobResult[Focus] = "ok"

C35_Witness ==
    /\ SomeErrors /\ jobResult[Focus] = "err"
    /\ w.need_catalog /\ Len(hist.catTries) = 2
    /\ "export" \in hist.ops
    /\ Len(summary.snapshot_list) = 1
    /\ summary.used_tapes = None /\ summary.duration = "unset"

\* The StoreProgress of the run exists (line 247 was executed).
ProgressExists == w.pc \notin {"idle", "w_refresh", "w_setup", "left"}

\* A group is being processed, or was the last one processed.
GroupListed ==
    w.pc \in {"w_group", "w_contains", "w_skip", "w_match"} \/ InSnapshotCall

\* Statement of record: done_groups is below the number of kept groups,
\* done_snapshots is at most group_snapshots, and group_snapshots is 1 in
\* latest-only mode, else the number of finished snapshots of the group.
C36_CountersStrict ==
    ProgressExists =>
      /\ progress.done_groups < progress.total_groups
      /\ progress.done_snapshots <= progress.group_snapshots
      /\ (GroupListed /\ w.group # 0) =>
           progress.group_snapshots =
             (IF w.latest_only THEN 1 ELSE Len(hist.finished))

\* C36: done_groups is at most the number of kept groups and below it when
\* there is any group; done_snapshots is at most group_snapshots;
\* group_snapshots is 0 for a group without finished snapshot and otherwise 1
\* in latest-only mode, else the number of finished snapshots of the group.
C36_CountersConsistent ==
    ProgressExists =>
      /\ progress.done_groups <= progress.total_groups
      /\ progress.total_groups > 0 => progress.done_groups < progress.total_groups
      /\ progress.done_snapshots <= progress.group_snapshots
      /\ (GroupListed /\ w.group # 0 /\ w.err = "") =>
           progress.group_snapshots =
             (IF hist.finished = <<>> THEN 0
              ELSE IF w.latest_only THEN 1 ELSE Len(hist.finished))

C36_Witness ==
    /\ w.pc = "w_group" /\ w.group_number = 2 /\ ~w.latest_only
    /\ progress.total_groups = 3 /\ progress.done_groups = 1
    /\ progress.group_snapshots = 2 /\ progress.done_snapshots = 2
    /\ Len(hist.finished) = 2 /\ hist.unfinished # {}

\* At least one of the six keep options is set to a non-zero value.
AnyKeepSet(k) ==
    \E o \in {k.keep_last, k.keep_hourly, k.keep_daily, k.keep_weekly,
              k.keep_monthly, k.keep_yearly} : unwrap_or(o, 0) # 0

\* C37: keeps_something returns true exactly when one of the six options is
\* set to a non-zero value, for all values of the options, also when their
\* sum exceeds the range of u64.
C37_KeepsSomething ==
    (call.fn = "keeps_something" /\ call.pc = "done") =>
       /\ call.ret \in {"true", "false"}
       /\ call.ret = "true" <=> AnyKeepSet(call.arg)

\* The text is none that from_str accepts by the statement.
NoLocationText(s) ==
    /\ s # S_offline
    /\ ~starts_with(s, S_online) /\ ~starts_with(s, S_vault) /\ ~starts_with(s, S_cloud)

\* C38: parsing the displayed text of a MediaLocation yields the location
\* again, and a text that is not "offline" and starts with none of "online-",
\* "vault-", "cloud-" is rejected with a parse error.
C38_TextRoundTrip ==
    /\ (call.fn = "to_string" /\ call.pc = "done") => call.ret = Ok(call.arg)
    /\ (call.fn = "from_str" /\ call.pc = "done" /\ NoLocationText(call.text)) =>
         ~call.ret.ok

C38_Witness ==
    /\ call.fn = "to_string" /\ call.pc = "done"
    /\ call.arg = Cloud(<<"-", "x">>)
    /\ call.text = S_cloud \o <<"-", "x">>
    /\ call.ret = Ok(call.arg)

====
